---------------------------- MODULE Spec2Model ----------------------------
(***************************************************************************)
(* A model of the MIPS simulator of cpuex_7_simulator: the flat Memory     *)
(* (processer-v1/src/memory.rs), the instruction decoder                   *)
(* (processer-v1/src/instructions.rs), the 64-set 4-way write-back Cache   *)
(* (processer-v2/src/cache.rs) and the Processor with its step() and run() *)
(* loop (processer-v2/src/processor.rs).                                   *)
(*                                                                         *)
(* Representation.                                                         *)
(*  - A u32 (Word, MemoryAddress, Instruction) is held as the integer with *)
(*    the same 32-bit two's-complement bit pattern, i.e. as the value of   *)
(*    `x as i32`: 0xFFFFFFFF is -1 and 0x80000000 is MinI32.  TLC's        *)
(*    integers are 32 bits wide, so every u32 has exactly one such value   *)
(*    and the wrapping operators below never leave that range.             *)
(*  - Memory is a zero-initialised Vec<u8>.  It is held as its size and    *)
(*    the finite function of its non-zero bytes; every other byte below    *)
(*    `size` is 0.                                                         *)
(*  - Cache.sets is an array of CACHE_SETS sets that all start as          *)
(*    CacheSet::new().  It is held as the finite function of the sets      *)
(*    that differ from CacheSet::new().                                    *)
(***************************************************************************)
EXTENDS Integers, Sequences, FiniteSets, TLC

(***************************************************************************)
(* 32-bit words                                                            *)
(***************************************************************************)
MaxI32 == 2147483647

MinI32 == -MaxI32 - 1

\* 2^n for 0 <= n <= 30
Pow2(n) == 2 ^ n

\* the sum that stops at the ends of the range instead of wrapping
WrappingAdd_saturating(a, b) ==
    IF a >= 0 /\ b > MaxI32 - a THEN MaxI32
    ELSE IF a < 0 /\ b < MinI32 - a THEN MinI32
    ELSE a + b

\* u32::wrapping_add on bit patterns
WrappingAdd(a, b) ==
    IF a >= 0 /\ b > MaxI32 - a
    THEN ((a - MaxI32) - 1) + ((b - MaxI32) - 1)
    ELSE IF a < 0 /\ b < MinI32 - a
    THEN ((a + MaxI32) + 1) + ((b + MaxI32) + 1)
    ELSE a + b

\* u32::wrapping_sub on bit patterns: a + (2^32 - b)
WrappingSub(a, b) ==
    IF b = MinI32 THEN WrappingAdd(a, MinI32) ELSE WrappingAdd(a, -b)

\* bits 0..30 of a word, as a natural number
Low31(a) == IF a >= 0 THEN a ELSE (a + MaxI32) + 1

\* logical shift right of a u32, 0 <= k <= 31  (`x >> k`)
Shr(a, k) ==
    IF k = 0 THEN a
    ELSE IF k = 31 THEN (IF a < 0 THEN 1 ELSE 0)
    ELSE IF a >= 0 THEN a \div Pow2(k)
    ELSE ((a \div Pow2(k)) + Pow2(31 - k)) + Pow2(31 - k)

\* bit i of a word, 0 <= i <= 31
BitAt(a, i) == Shr(a, i) % 2

\* shift left of a u32, 0 <= k <= 31, the bits shifted out are lost (`x << k`)
Shl(a, k) ==
    LET top == IF BitAt(a, 31 - k) = 1 THEN MinI32 ELSE 0
    IN  IF k = 0 THEN a
        ELSE IF k = 31 THEN top
        ELSE (Low31(a) % Pow2(31 - k)) * Pow2(k) + top

RECURSIVE BitwiseFrom(_, _, _, _)
\* bits i..31 of the bitwise combination of a and b, op is "and" or "or"
BitwiseFrom(a, b, op, i) ==
    LET x == BitAt(a, i)
        y == BitAt(b, i)
        bit == IF op = "and" THEN x * y ELSE IF x + y > 0 THEN 1 ELSE 0
    IN  IF i = 31
        THEN (IF bit = 1 THEN MinI32 ELSE 0)
        ELSE bit * Pow2(i) + BitwiseFrom(a, b, op, i + 1)

\* `a & b`
BitAnd(a, b) == BitwiseFrom(a, b, "and", 0)

\* `a | b`
BitOr(a, b) == BitwiseFrom(a, b, "or", 0)

\* `x as u8`, `x & 0xFF`
LowByte(a) == a % 256

\* Result<T, E>
Ok(v) == [ok |-> TRUE, val |-> v]

Err(e) == [ok |-> FALSE, err |-> e]

(***************************************************************************)
(* Memory (processer-v1/src/memory.rs)                                     *)
(***************************************************************************)
\* MemoryError::AddressOutOfRange(address)
AddressOutOfRange(address) == [kind |-> "AddressOutOfRange", address |-> address]

\* Memory::with_size: vec![0; size]
Memory_with_size(size) == [size |-> size, data |-> <<>>]

\* self.data[address] of an in-range address
ByteAt(m, address) ==
    IF address \in DOMAIN m.data THEN m.data[address] ELSE 0

\* self.data[address] = value of an in-range address
StoreByte(m, address, value) ==
    LET dom == IF value = 0 THEN DOMAIN m.data \ {address}
               ELSE DOMAIN m.data \cup {address}
    IN  [m EXCEPT !.data =
            [x \in dom |-> IF x = address THEN value ELSE m.data[x]]]

\* `address as usize >= self.data.len()`
ByteOutOfRange(m, address) == address < 0 \/ address >= m.size

\* `(address as usize).saturating_add(3) >= self.data.len()`
WordOutOfRange(m, address) == address < 0 \/ address >= m.size - 3

\* Memory::size
Memory_size(m) == m.size

\* Memory::write_byte: [res, memory]
Memory_write_byte(m, address, value) ==
    IF ByteOutOfRange(m, address)
    THEN [res |-> Err(AddressOutOfRange(address)), memory |-> m]
    ELSE [res |-> Ok(<<>>), memory |-> StoreByte(m, address, value)]

\* Memory::read_byte
Memory_read_byte(m, address) ==
    IF ByteOutOfRange(m, address)
    THEN Err(AddressOutOfRange(address))
    ELSE Ok(ByteAt(m, address))

\* Memory::write_word (little-endian): [res, memory]
Memory_write_word(m, address, value) ==
    IF WordOutOfRange(m, address)
    THEN [res |-> Err(AddressOutOfRange(address)), memory |-> m]
    ELSE [res |-> Ok(<<>>),
          memory |->
            StoreByte(
              StoreByte(
                StoreByte(
                  StoreByte(m, address, LowByte(value)),
                  address + 1, LowByte(Shr(value, 8))),
                address + 2, LowByte(Shr(value, 16))),
              address + 3, LowByte(Shr(value, 24)))]

\* the bytes put together with the first one highest
WordOfBytes_big_endian(b0, b1, b2, b3) ==
    (b3 + b2 * 256 + b1 * 65536) + Shl(b0, 24)

\* b0 | b1 << 8 | b2 << 16 | b3 << 24
WordOfBytes(b0, b1, b2, b3) ==
    (b0 + b1 * 256 + b2 * 65536) + Shl(b3, 24)

\* Memory::read_word (little-endian)
Memory_read_word(m, address) ==
    IF WordOutOfRange(m, address)
    THEN Err(AddressOutOfRange(address))
    ELSE Ok(WordOfBytes(ByteAt(m, address), ByteAt(m, address + 1),
                        ByteAt(m, address + 2), ByteAt(m, address + 3)))

\* Memory::write_instruction
Memory_write_instruction(m, address, instruction) ==
    Memory_write_word(m, address, instruction)

(***************************************************************************)
(* Cache (processer-v2/src/cache.rs)                                       *)
(***************************************************************************)
CACHE_LINE_SIZE == 32

CACHE_SETS == 64

CACHE_WAYS == 4

\* Option<usize>
Some(i) == [some |-> TRUE, val |-> i]

None == [some |-> FALSE]

\* CacheLine::new
CacheLine_new ==
    [valid |-> FALSE, dirty |-> FALSE, tag |-> 0,
     data |-> [i \in 0..(CACHE_LINE_SIZE - 1) |-> 0], access_time |-> 0]

\* CacheSet::new
CacheSet_new == [w \in 0..(CACHE_WAYS - 1) |-> CacheLine_new]

\* CacheStats::default
CacheStats_default == [hits |-> 0, misses |-> 0, writebacks |-> 0]

\* Cache::new
Cache_new == [sets |-> <<>>, stats |-> CacheStats_default, access_counter |-> 0]

\* self.sets[set_index]
SetAt(c, set_index) ==
    IF set_index \in DOMAIN c.sets THEN c.sets[set_index] ELSE CacheSet_new

\* self.sets[set_index].lines[way_index]
LineAt(c, set_index, way_index) == SetAt(c, set_index)[way_index]

\* self.sets[set_index].lines[way_index] = line
WithLine(c, set_index, way_index, line) ==
    LET set == [SetAt(c, set_index) EXCEPT ![way_index] = line]
        dom == IF set = CacheSet_new THEN DOMAIN c.sets \ {set_index}
               ELSE DOMAIN c.sets \cup {set_index}
    IN  [c EXCEPT !.sets =
            [s \in dom |-> IF s = set_index THEN set ELSE c.sets[s]]]

\* Cache::get_set_index
get_set_index(address) == Shr(address, 5) % CACHE_SETS

\* a tag from the address taken as a signed number
get_tag_signed(address) == (address \div CACHE_LINE_SIZE) \div CACHE_SETS

\* Cache::get_tag
get_tag(address) == Shr(address, 5) \div CACHE_SETS

\* Cache::get_offset
get_offset(address) == address % CACHE_LINE_SIZE

\* ((tag * CACHE_SETS + set_index) * CACHE_LINE_SIZE) as MemoryAddress
base_address(tag, set_index) == Shl(tag * CACHE_SETS + set_index, 5)

\* a search that looks at way 0 only
matching_way_first(set, tag) ==
    IF set[0].valid /\ set[0].tag = tag THEN Some(0) ELSE None

\* the first way of the set that is valid and holds the tag
matching_way(set, tag) ==
    LET found == {i \in 0..(CACHE_WAYS - 1) : set[i].valid /\ set[i].tag = tag}
    IN  IF found = {} THEN None
        ELSE Some(CHOOSE x \in found : \A y \in found : x <= y)

\* the hit of Cache::find_line: the line is stamped and the counter advances
stamp_line(c, set_index, way_index, line) ==
    [WithLine(c, set_index, way_index, [line EXCEPT !.access_time = c.access_counter])
        EXCEPT !.access_counter = c.access_counter + 1]

\* Cache::find_line with the way it found: [way, cache]
find_line_at(c, set_index, way) ==
    IF way.some
    THEN [way |-> way,
          cache |-> stamp_line(c, set_index, way.val, LineAt(c, set_index, way.val))]
    ELSE [way |-> None, cache |-> c]

\* Cache::find_line: [way, cache]
find_line(c, set_index, tag) ==
    find_line_at(c, set_index, matching_way(SetAt(c, set_index), tag))

\* the line was used longer ago than all the valid lines before it were
is_older_newer(line, oldest_time) == line.access_time > oldest_time

\* `if line.access_time < oldest_time` of Cache::select_lru_line
is_older(line, oldest_time) == line.access_time < oldest_time

\* the way with the smallest access_time, whether it is valid or not
select_lru_loop_oldest(set, i, lru_index, oldest_time) ==
    CHOOSE w \in 0..(CACHE_WAYS - 1) : \A v \in 0..(CACHE_WAYS - 1) :
        \/ set[w].access_time < set[v].access_time
        \/ set[w].access_time = set[v].access_time /\ w <= v

RECURSIVE select_lru_loop(_, _, _, _)
\* the loop of Cache::select_lru_line from way i on
select_lru_loop(set, i, lru_index, oldest_time) ==
    IF i = CACHE_WAYS THEN lru_index
    ELSE IF ~set[i].valid THEN i
    ELSE IF is_older(set[i], oldest_time)
         THEN select_lru_loop(set, i + 1, i, set[i].access_time)
         ELSE select_lru_loop(set, i + 1, lru_index, oldest_time)

\* a victim way taken from the number of misses counted so far
select_lru_line_by_misses(c, set_index) == c.stats.misses % CACHE_WAYS

\* Cache::select_lru_line
select_lru_line(c, set_index) ==
    select_lru_loop(SetAt(c, set_index), 0, 0, LineAt(c, set_index, 0).access_time)

\* a byte loop that reports success and writes nothing
write_block_nothing(m, base, data, i) == [res |-> Ok(<<>>), memory |-> m]

RECURSIVE write_block(_, _, _, _)
RECURSIVE write_block_next(_, _, _, _, _)
\* for i in 0..CACHE_LINE_SIZE { memory.write_byte(base_address + i, data[i])?; }
write_block(m, base, data, i) ==
    IF i = CACHE_LINE_SIZE THEN [res |-> Ok(<<>>), memory |-> m]
    ELSE write_block_next(Memory_write_byte(m, WrappingAdd(base, i), data[i]),
                          m, base, data, i)

\* the `?` of that loop: w is what memory.write_byte returned for byte i
write_block_next(w, m, base, data, i) ==
    IF w.res.ok THEN write_block(w.memory, base, data, i + 1)
    ELSE [res |-> w.res, memory |-> m]

\* the end of Cache::writeback_line, w is what the byte loop returned
writeback_counted(c, w) ==
    IF w.res.ok
    THEN [res |-> Ok(<<>>),
          cache |-> [c EXCEPT !.stats.writebacks = c.stats.writebacks + 1],
          memory |-> w.memory]
    ELSE [res |-> w.res, cache |-> c, memory |-> w.memory]

\* Cache::writeback_line of the line `line` of the set: [res, cache, memory]
writeback_of(c, m, set_index, line) ==
    IF ~line.dirty THEN [res |-> Ok(<<>>), cache |-> c, memory |-> m]
    ELSE writeback_counted(c,
            write_block(m, base_address(line.tag, set_index), line.data, 0))

\* Cache::writeback_line: [res, cache, memory]
writeback_line(c, m, set_index, way_index) ==
    writeback_of(c, m, set_index, LineAt(c, set_index, way_index))

RECURSIVE read_block(_, _, _, _)
RECURSIVE read_block_next(_, _, _, _, _)
\* for i in 0..CACHE_LINE_SIZE { line.data[i] = memory.read_byte(base_address + i)?; }
read_block(m, base, data, i) ==
    IF i = CACHE_LINE_SIZE THEN [res |-> Ok(<<>>), data |-> data]
    ELSE read_block_next(Memory_read_byte(m, WrappingAdd(base, i)), m, base, data, i)

\* the `?` of that loop: r is what memory.read_byte returned for byte i
read_block_next(r, m, base, data, i) ==
    IF r.ok THEN read_block(m, base, [data EXCEPT ![i] = r.val], i + 1)
    ELSE [res |-> r, data |-> data]

\* the end of a load_line that marks the line invalid when the load failed
load_line_done_invalidating(c, set_index, way_index, tag, line, r) ==
    IF r.res.ok
    THEN [res |-> Ok(<<>>),
          cache |-> [WithLine(c, set_index, way_index,
                        [valid |-> TRUE, dirty |-> FALSE, tag |-> tag,
                         data |-> r.data, access_time |-> c.access_counter])
                     EXCEPT !.access_counter = c.access_counter + 1]]
    ELSE [res |-> r.res,
          cache |-> WithLine(c, set_index, way_index,
                        [line EXCEPT !.data = r.data, !.valid = FALSE])]

\* the end of Cache::load_line, r is what the byte loop returned: [res, cache]
load_line_done(c, set_index, way_index, tag, line, r) ==
    IF r.res.ok
    THEN [res |-> Ok(<<>>),
          cache |-> [WithLine(c, set_index, way_index,
                        [valid |-> TRUE, dirty |-> FALSE, tag |-> tag,
                         data |-> r.data, access_time |-> c.access_counter])
                     EXCEPT !.access_counter = c.access_counter + 1]]
    ELSE [res |-> r.res,
          cache |-> WithLine(c, set_index, way_index, [line EXCEPT !.data = r.data])]

\* Cache::load_line into the line `line`: [res, cache]
load_line_into(c, m, set_index, way_index, tag, line) ==
    load_line_done(c, set_index, way_index, tag, line,
                   read_block(m, base_address(tag, set_index), line.data, 0))

\* Cache::load_line: [res, cache]
load_line(c, m, set_index, way_index, tag) ==
    load_line_into(c, m, set_index, way_index, tag, LineAt(c, set_index, way_index))

\* a miss that is counted with the hits
count_miss_as_hit(c) == [c EXCEPT !.stats.hits = c.stats.hits + 1]

\* self.stats.misses += 1
count_miss(c) == [c EXCEPT !.stats.misses = c.stats.misses + 1]

\* a hit counter of one bit: it falls back to 0 on the second hit
count_hit_wrapping(c) == [c EXCEPT !.stats.hits = (c.stats.hits + 1) % 2]

\* self.stats.hits += 1
count_hit(c) == [c EXCEPT !.stats.hits = c.stats.hits + 1]

\* a [res, cache, memory] with the way it is about
with_way(r, way_index) ==
    [res |-> r.res, cache |-> r.cache, memory |-> r.memory, way |-> way_index]

\* `if line.valid && line.dirty { self.writeback_line(..)?; }` of the victim
writeback_victim(c, m, set_index, way_index, victim) ==
    IF victim.valid /\ victim.dirty
    THEN with_way(writeback_line(c, m, set_index, way_index), way_index)
    ELSE [res |-> Ok(<<>>), cache |-> c, memory |-> m, way |-> way_index]

\* the start of the miss path of read_byte and write_byte: count the miss,
\* select the victim, write it back: [res, cache, memory, way]
evict_victim(c, m, set_index) ==
    writeback_victim(count_miss(c), m, set_index, select_lru_line(c, set_index),
                     LineAt(c, set_index, select_lru_line(c, set_index)))

\* a hit of read_byte that is not counted
read_hit_uncounted(f, m, set_index, offset) ==
    [res |-> Ok(LineAt(f.cache, set_index, f.way.val).data[offset]),
     cache |-> f.cache, memory |-> m]

\* the hit of Cache::read_byte
read_hit(f, m, set_index, offset) ==
    [res |-> Ok(LineAt(f.cache, set_index, f.way.val).data[offset]),
     cache |-> count_hit(f.cache), memory |-> m]

\* the end of the miss of Cache::read_byte, ld is what load_line returned
read_loaded(ld, m, set_index, way_index, offset) ==
    IF ld.res.ok
    THEN [res |-> Ok(LineAt(ld.cache, set_index, way_index).data[offset]),
          cache |-> ld.cache, memory |-> m]
    ELSE [res |-> ld.res, cache |-> ld.cache, memory |-> m]

\* the miss of Cache::read_byte, ev is what the eviction returned
read_miss(ev, set_index, tag, offset) ==
    IF ev.res.ok
    THEN read_loaded(load_line(ev.cache, ev.memory, set_index, ev.way, tag),
                     ev.memory, set_index, ev.way, offset)
    ELSE [res |-> ev.res, cache |-> ev.cache, memory |-> ev.memory]

\* Cache::read_byte, f is what find_line returned
read_byte_found(f, m, set_index, tag, offset) ==
    IF f.way.some THEN read_hit(f, m, set_index, offset)
    ELSE read_miss(evict_victim(f.cache, m, set_index), set_index, tag, offset)

\* Cache::read_byte: [res, cache, memory]
Cache_read_byte(c, m, address) ==
    read_byte_found(find_line(c, get_set_index(address), get_tag(address)), m,
                    get_set_index(address), get_tag(address), get_offset(address))

\* the hit of Cache::write_byte
write_hit(c, m, set_index, way_index, line, offset, value) ==
    [res |-> Ok(<<>>),
     cache |-> WithLine(count_hit(c), set_index, way_index,
                  [line EXCEPT !.data[offset] = value, !.dirty = TRUE]),
     memory |-> m]

\* the allocation of the miss of Cache::write_byte: the line is not filled
allocate_line(c, set_index, way_index, tag, offset, value, old) ==
    [WithLine(c, set_index, way_index,
        [valid |-> TRUE, dirty |-> TRUE, tag |-> tag,
         data |-> [old.data EXCEPT ![offset] = value],
         access_time |-> c.access_counter])
     EXCEPT !.access_counter = c.access_counter + 1]

\* the miss of Cache::write_byte, ev is what the eviction returned
write_miss(ev, set_index, tag, offset, value) ==
    IF ev.res.ok
    THEN [res |-> Ok(<<>>),
          cache |-> allocate_line(ev.cache, set_index, ev.way, tag, offset, value,
                                  LineAt(ev.cache, set_index, ev.way)),
          memory |-> ev.memory]
    ELSE [res |-> ev.res, cache |-> ev.cache, memory |-> ev.memory]

\* Cache::write_byte, f is what find_line returned
write_byte_found(f, m, set_index, tag, offset, value) ==
    IF f.way.some
    THEN write_hit(f.cache, m, set_index, f.way.val,
                   LineAt(f.cache, set_index, f.way.val), offset, value)
    ELSE write_miss(evict_victim(f.cache, m, set_index), set_index, tag, offset, value)

\* Cache::write_byte: [res, cache, memory]
Cache_write_byte(c, m, address, value) ==
    write_byte_found(find_line(c, get_set_index(address), get_tag(address)), m,
                     get_set_index(address), get_tag(address), get_offset(address),
                     value)

RECURSIVE read_bytes(_, _, _, _, _)
RECURSIVE read_bytes_next(_, _, _, _)
\* self.read_byte(memory, address + n)? for n..3, acc holds the bytes read so far
read_bytes(c, m, address, n, acc) ==
    IF n = 4
    THEN [res |-> Ok(WordOfBytes(acc[1], acc[2], acc[3], acc[4])),
          cache |-> c, memory |-> m]
    ELSE read_bytes_next(Cache_read_byte(c, m, address + n), address, n, acc)

\* the `?` of byte n: r is what read_byte returned
read_bytes_next(r, address, n, acc) ==
    IF r.res.ok
    THEN read_bytes(r.cache, r.memory, address, n + 1, Append(acc, r.res.val))
    ELSE r

\* Cache::read_word: [res, cache, memory]
Cache_read_word(c, m, address) ==
    IF WordOutOfRange(m, address)
    THEN [res |-> Err(AddressOutOfRange(address)), cache |-> c, memory |-> m]
    ELSE read_bytes(c, m, address, 0, <<>>)

RECURSIVE write_bytes(_, _, _, _, _)
RECURSIVE write_bytes_next(_, _, _, _)
\* self.write_byte(memory, address + n, (value >> 8 * n) & 0xFF)? for n..3
write_bytes(c, m, address, value, n) ==
    IF n = 4 THEN [res |-> Ok(<<>>), cache |-> c, memory |-> m]
    ELSE write_bytes_next(
            Cache_write_byte(c, m, address + n, LowByte(Shr(value, 8 * n))),
            address, value, n)

\* the `?` of byte n: w is what write_byte returned
write_bytes_next(w, address, value, n) ==
    IF w.res.ok THEN write_bytes(w.cache, w.memory, address, value, n + 1)
    ELSE w

\* write_word without the check of the span: each byte is checked on its own
Cache_write_word_bytewise(c, m, address, value) ==
    write_bytes(c, m, address, value, 0)

\* Cache::write_word: [res, cache, memory]
Cache_write_word(c, m, address, value) ==
    IF WordOutOfRange(m, address)
    THEN [res |-> Err(AddressOutOfRange(address)), cache |-> c, memory |-> m]
    ELSE write_bytes(c, m, address, value, 0)

\* Cache::get_stats
Cache_get_stats(c) == c.stats

\* Cache::reset_stats
Cache_reset_stats(c) == [c EXCEPT !.stats = CacheStats_default]

\* the first line from k on that is valid, dirty or not
next_dirty_valid(c, k) ==
    LET todo == {j \in k..(CACHE_SETS * CACHE_WAYS - 1) :
                    LineAt(c, j \div CACHE_WAYS, j % CACHE_WAYS).valid}
    IN  IF todo = {} THEN CACHE_SETS * CACHE_WAYS
        ELSE CHOOSE j \in todo : \A x \in todo : j <= x

\* the first line from k on that is valid and dirty, k = set * CACHE_WAYS + way,
\* or CACHE_SETS * CACHE_WAYS when there is none
next_dirty(c, k) ==
    LET todo == {j \in k..(CACHE_SETS * CACHE_WAYS - 1) :
                    /\ LineAt(c, j \div CACHE_WAYS, j % CACHE_WAYS).valid
                    /\ LineAt(c, j \div CACHE_WAYS, j % CACHE_WAYS).dirty}
    IN  IF todo = {} THEN CACHE_SETS * CACHE_WAYS
        ELSE CHOOSE j \in todo : \A x \in todo : j <= x

\* a base address that leaves the set index out
flush_base_address_of_tag(tag, set_index) == Shl(tag * CACHE_SETS, 5)

\* the base_address that Cache::flush computes for a line of a set
flush_base_address(tag, set_index) == Shl(tag * CACHE_SETS + set_index, 5)

RECURSIVE flush_from(_, _, _)
RECURSIVE flush_at(_, _, _)
RECURSIVE flush_written(_, _, _, _)
\* the loops of Cache::flush from line k on; the lines that are not valid and
\* dirty are passed over
flush_from(c, m, k) == flush_at(c, m, next_dirty(c, k))

\* the body of `if line.valid && line.dirty` for line n
flush_at(c, m, n) ==
    IF n = CACHE_SETS * CACHE_WAYS
    THEN [res |-> Ok(<<>>), cache |-> c, memory |-> m]
    ELSE flush_written(c, n, LineAt(c, n \div CACHE_WAYS, n % CACHE_WAYS),
            write_block(m,
                flush_base_address(LineAt(c, n \div CACHE_WAYS, n % CACHE_WAYS).tag,
                                   n \div CACHE_WAYS),
                LineAt(c, n \div CACHE_WAYS, n % CACHE_WAYS).data, 0))

\* the end of that body without `line.dirty = false`
flush_written_keeps_dirty(c, n, line, w) ==
    IF w.res.ok
    THEN flush_from([c EXCEPT !.stats.writebacks = c.stats.writebacks + 1],
                    w.memory, n + 1)
    ELSE [res |-> w.res, cache |-> c, memory |-> w.memory]

\* the end of that body, w is what the byte loop returned
flush_written(c, n, line, w) ==
    IF w.res.ok
    THEN flush_from(
            [WithLine(c, n \div CACHE_WAYS, n % CACHE_WAYS, [line EXCEPT !.dirty = FALSE])
                EXCEPT !.stats.writebacks = c.stats.writebacks + 1],
            w.memory, n + 1)
    ELSE [res |-> w.res, cache |-> c, memory |-> w.memory]

\* Cache::flush: [res, cache, memory]
Cache_flush(c, m) == flush_from(c, m, 0)

(***************************************************************************)
(* Instructions (processer-v1/src/instructions.rs)                         *)
(***************************************************************************)
\* the low 16 bits read without a sign
AsI16_unsigned(x) == x

\* `x as i16` of the low 16 bits
AsI16(x) == IF x >= 32768 THEN x - 65536 ELSE x

\* the fields InstructionType::decode takes from the word
Fields(instruction) ==
    [opcode |-> Shr(instruction, 26),
     rs |-> Shr(instruction, 21) % 32,
     rt |-> Shr(instruction, 16) % 32,
     rd |-> Shr(instruction, 11) % 32,
     shamt |-> Shr(instruction, 6) % 32,
     funct |-> instruction % 64,
     imm |-> AsI16(instruction % 65536),
     addr |-> instruction % 67108864]

\* `match funct` of InstructionType::decode
decode_funct(funct) ==
    CASE funct = 32 -> "Add"
      [] funct = 34 -> "Sub"
      [] funct = 36 -> "And"
      [] funct = 37 -> "Or"
      [] funct = 42 -> "Slt"
      [] funct = 0 -> "Sll"
      [] funct = 2 -> "Srl"
      [] funct = 8 -> "Jr"
      [] funct = 12 -> "Syscall"
      [] OTHER -> "Invalid"

\* `match opcode` of InstructionType::decode
decode_opcode(opcode, funct) ==
    CASE opcode = 0 -> decode_funct(funct)
      [] opcode = 8 -> "Addi"
      [] opcode = 35 -> "Lw"
      [] opcode = 43 -> "Sw"
      [] opcode = 4 -> "Beq"
      [] opcode = 5 -> "Bne"
      [] opcode = 10 -> "Slti"
      [] opcode = 2 -> "J"
      [] opcode = 3 -> "Jal"
      [] OTHER -> "Invalid"

\* the variant with the fields f
decoded(f) ==
    [type |-> decode_opcode(f.opcode, f.funct), rs |-> f.rs, rt |-> f.rt,
     rd |-> f.rd, shamt |-> f.shamt, imm |-> f.imm, addr |-> f.addr]

\* InstructionType::decode; the record holds the variant as `type` and every
\* field of the word, of which a variant carries some
decode(instruction) == decoded(Fields(instruction))

(***************************************************************************)
(* Processor (processer-v2/src/processor.rs)                               *)
(* A processor p is [registers, pc, hi, lo, memory, cache, stats].         *)
(***************************************************************************)
REGISTER_COUNT == 32

\* 0x00400000
PC_INITIAL == 4194304

\* 0x7FFFFFFC
SP_INITIAL == 2147483644

\* the sentinel 0xFFFFFFFF that Processor::run compares the PC with
PC_HALT == -1

\* the instruction count after which Processor::run stops
INSTRUCTION_LIMIT == 100000

\* ProcessorError::MemoryError
MemoryError(e) == [kind |-> "MemoryError", error |-> e]

\* ProcessorError::InvalidInstruction
InvalidInstruction(instruction) ==
    [kind |-> "InvalidInstruction", instruction |-> instruction]

\* ProcessorError::ProgramEnd
ProgramEnd == [kind |-> "ProgramEnd"]

\* ProcessorStats::default
ProcessorStats_default ==
    [instructions_executed |-> 0, branches_taken |-> 0,
     loads_executed |-> 0, stores_executed |-> 0]

\* Processor::with_memory_size
Processor_with_memory_size(memory_size) ==
    [registers |-> [r \in 0..(REGISTER_COUNT - 1) |-> IF r = 29 THEN SP_INITIAL ELSE 0],
     pc |-> PC_INITIAL,
     hi |-> 0,
     lo |-> 0,
     memory |-> Memory_with_size(memory_size),
     cache |-> Cache_new,
     stats |-> ProcessorStats_default]

\* Processor::get_register
get_register(p, reg) == IF reg = 0 THEN 0 ELSE p.registers[reg]

\* set_register without the test `reg != 0`
set_register_any(p, reg, value) == [p EXCEPT !.registers[reg] = value]

\* Processor::set_register
set_register(p, reg, value) ==
    IF reg # 0 THEN [p EXCEPT !.registers[reg] = value] ELSE p

\* the comparison of the two words as u32
less_than_unsigned(a, b) == (a >= 0 /\ b < 0) \/ ((a < 0 <=> b < 0) /\ a < b)

\* `rs_val < rt_val` of the two words taken `as i32`: a word is held as the
\* i32 of its bit pattern
less_than(a, b) == a < b

\* the end of an arm that falls through to `Ok(false)`
not_taken(p) == [res |-> Ok(FALSE), p |-> p]

\* the end of an arm that sets the PC without counting the branch
taken_uncounted(p, target) == [res |-> Ok(TRUE), p |-> [p EXCEPT !.pc = target]]

\* the end of an arm that sets the PC: branches_taken += 1; return Ok(true)
taken(p, target) ==
    [res |-> Ok(TRUE),
     p |-> [p EXCEPT !.pc = target,
                     !.stats.branches_taken = p.stats.branches_taken + 1]]

\* the target counted from the instruction after the branch
branch_target_from_next(p, imm) == WrappingAdd(WrappingAdd(p.pc, 4), imm * 4)

\* `self.pc.wrapping_add((imm as i32 * 4) as u32)`
branch_target(p, imm) == WrappingAdd(p.pc, imm * 4)

\* `addr << 2` without the top 4 bits of the PC
jump_target_low(p, addr) == Shl(addr, 2)

\* `(self.pc & 0xF0000000) | (addr << 2)`
jump_target(p, addr) == BitOr(BitAnd(p.pc, -268435456), Shl(addr, 2))

\* the Lw arm once the cache has answered with r
exec_Lw_read(p, d, r) ==
    IF r.res.ok
    THEN not_taken([set_register(p, d.rt, r.res.val)
                        EXCEPT !.cache = r.cache, !.memory = r.memory,
                               !.stats.loads_executed = p.stats.loads_executed + 1])
    ELSE [res |-> Err(MemoryError(r.res.err)),
          p |-> [p EXCEPT !.cache = r.cache, !.memory = r.memory]]

\* the Sw arm once the cache has answered with w
exec_Sw_written(p, w) ==
    IF w.res.ok
    THEN not_taken([p EXCEPT !.cache = w.cache, !.memory = w.memory,
                             !.stats.stores_executed = p.stats.stores_executed + 1])
    ELSE [res |-> Err(MemoryError(w.res.err)),
          p |-> [p EXCEPT !.cache = w.cache, !.memory = w.memory]]

RECURSIVE print_string_from(_, _)
\* the loop of Processor::print_string at current_addr; the text goes to the
\* standard output, the Result is what the processor sees
print_string_from(m, current_addr) ==
    IF ByteOutOfRange(m, current_addr) THEN Err(AddressOutOfRange(current_addr))
    ELSE IF ByteAt(m, current_addr) = 0 THEN Ok(<<>>)
    ELSE print_string_from(m, current_addr + 1)

\* Processor::print_string
print_string(p, address) == print_string_from(p.memory, address)

\* `self.print_string(address)` whose error is dropped
exec_print_string_unchecked(p, r) == not_taken(p)

\* `self.print_string(address)?` of syscall 4
exec_print_string(p, r) ==
    IF r.ok THEN not_taken(p) ELSE [res |-> Err(MemoryError(r.err)), p |-> p]

\* the Syscall arm: `match syscall_number`
exec_Syscall(p, instruction, syscall_number) ==
    CASE syscall_number = 1 -> not_taken(p)
      [] syscall_number = 4 -> exec_print_string(p, print_string(p, get_register(p, 4)))
      [] syscall_number = 10 -> [res |-> Err(ProgramEnd), p |-> p]
      [] syscall_number = 11 -> not_taken(p)
      [] OTHER -> [res |-> Err(InvalidInstruction(instruction)), p |-> p]

\* the arms of `match instruction_type` of Processor::execute_instruction;
\* the `self.pc + 4` of Jal cannot overflow, the PC that step() fetched from
\* lies below the memory size
exec_arm(p, d, instruction) ==
    CASE d.type = "Add" ->
            not_taken(set_register(p, d.rd,
                WrappingAdd(get_register(p, d.rs), get_register(p, d.rt))))
      [] d.type = "Sub" ->
            not_taken(set_register(p, d.rd,
                WrappingSub(get_register(p, d.rs), get_register(p, d.rt))))
      [] d.type = "And" ->
            not_taken(set_register(p, d.rd,
                BitAnd(get_register(p, d.rs), get_register(p, d.rt))))
      [] d.type = "Or" ->
            not_taken(set_register(p, d.rd,
                BitOr(get_register(p, d.rs), get_register(p, d.rt))))
      [] d.type = "Slt" ->
            not_taken(set_register(p, d.rd,
                IF less_than(get_register(p, d.rs), get_register(p, d.rt))
                THEN 1 ELSE 0))
      [] d.type = "Sll" ->
            not_taken(set_register(p, d.rd, Shl(get_register(p, d.rt), d.shamt)))
      [] d.type = "Srl" ->
            not_taken(set_register(p, d.rd, Shr(get_register(p, d.rt), d.shamt)))
      [] d.type = "Jr" -> taken(p, get_register(p, d.rs))
      [] d.type = "Addi" ->
            not_taken(set_register(p, d.rt, WrappingAdd(get_register(p, d.rs), d.imm)))
      [] d.type = "Lw" ->
            exec_Lw_read(p, d,
                Cache_read_word(p.cache, p.memory,
                                WrappingAdd(get_register(p, d.rs), d.imm)))
      [] d.type = "Sw" ->
            exec_Sw_written(p,
                Cache_write_word(p.cache, p.memory,
                                 WrappingAdd(get_register(p, d.rs), d.imm),
                                 get_register(p, d.rt)))
      [] d.type = "Beq" ->
            IF get_register(p, d.rs) = get_register(p, d.rt)
            THEN taken(p, branch_target(p, d.imm))
            ELSE not_taken(p)
      [] d.type = "Bne" ->
            IF get_register(p, d.rs) # get_register(p, d.rt)
            THEN taken(p, branch_target(p, d.imm))
            ELSE not_taken(p)
      [] d.type = "Slti" ->
            not_taken(set_register(p, d.rt,
                IF less_than(get_register(p, d.rs), d.imm) THEN 1 ELSE 0))
      [] d.type = "J" -> taken(p, jump_target(p, d.addr))
      [] d.type = "Jal" ->
            taken(set_register(p, 31, WrappingAdd(p.pc, 4)), jump_target(p, d.addr))
      [] d.type = "Syscall" -> exec_Syscall(p, instruction, get_register(p, 2))
      [] OTHER -> [res |-> Err(InvalidInstruction(instruction)), p |-> p]

\* Processor::execute_instruction: [res, p], res is Ok(branch taken) or Err
execute_instruction(p, instruction) == exec_arm(p, decode(instruction), instruction)

\* Processor::fetch_instruction: [res, cache, memory]
fetch_instruction(p) == Cache_read_word(p.cache, p.memory, p.pc)

\* the PC is advanced although the instruction has set it
advance_always(x) ==
    [res |-> x.res,
     p |-> [x.p EXCEPT !.pc = WrappingAdd(x.p.pc, 4),
                        !.stats.instructions_executed =
                            x.p.stats.instructions_executed + 1]]

\* `if !branch_taken { pc = pc.wrapping_add(4); instructions_executed += 1 }`
advance(x) ==
    IF ~x.res.val
    THEN [res |-> x.res,
          p |-> [x.p EXCEPT !.pc = WrappingAdd(x.p.pc, 4),
                             !.stats.instructions_executed =
                                x.p.stats.instructions_executed + 1]]
    ELSE x

\* a step that moves the PC past an instruction that returned an error
step_executed_skipping(x) ==
    IF x.res.ok THEN advance(x)
    ELSE [res |-> x.res, p |-> [x.p EXCEPT !.pc = WrappingAdd(x.p.pc, 4)]]

\* Processor::step after execute_instruction has returned x
step_executed(x) == IF x.res.ok THEN advance(x) ELSE x

\* Processor::step after fetch_instruction has returned f
step_fetched(p, f) ==
    IF f.res.ok
    THEN step_executed(execute_instruction(
            [p EXCEPT !.cache = f.cache, !.memory = f.memory], f.res.val))
    ELSE [res |-> Err(MemoryError(f.res.err)),
          p |-> [p EXCEPT !.cache = f.cache, !.memory = f.memory]]

\* Processor::step: [res, p]
step(p) == step_fetched(p, fetch_instruction(p))

\* what one pass of the loop of Processor::run leaves: the processor, the
\* count, whether the loop goes on, and what run returns when it does not
run_pass(p, count, going, result) ==
    [p |-> p, instruction_count |-> count, going |-> going, result |-> result]

\* the end of a pass that did not take a branch and did not see $2 = 10
run_counted(p, count) ==
    IF count > INSTRUCTION_LIMIT
    THEN run_pass(p, count, FALSE, Ok(<<>>))
    ELSE run_pass(p, count, TRUE, Ok(<<>>))

\* `match self.step()` that passes over an error and goes on
run_stepped_ignoring_fault(s, count) ==
    IF ~s.res.ok THEN run_pass(s.p, count, TRUE, Ok(<<>>))
    ELSE IF s.res.val THEN run_pass(s.p, count, TRUE, Ok(<<>>))
    ELSE IF s.p.registers[2] = 10 THEN run_pass(s.p, count, FALSE, Ok(<<>>))
    ELSE run_counted(s.p, count + 1)

\* `match self.step()?` of Processor::run, s is what step returned
run_stepped(s, count) ==
    IF ~s.res.ok THEN run_pass(s.p, count, FALSE, Err(s.res.err))
    ELSE IF s.res.val THEN run_pass(s.p, count, TRUE, Ok(<<>>))
    ELSE IF s.p.registers[2] = 10 THEN run_pass(s.p, count, FALSE, Ok(<<>>))
    ELSE run_counted(s.p, count + 1)

\* one pass of the loop of Processor::run
run_loop(p, count) ==
    IF p.pc = PC_HALT THEN run_pass(p, count, FALSE, Ok(<<>>))
    ELSE run_stepped(step(p), count)

RECURSIVE write_program(_, _, _, _)
RECURSIVE write_program_next(_, _, _, _)
\* the loop of Processor::load_program from instruction i on
write_program(m, program, start_address, i) ==
    IF i > Len(program) THEN [res |-> Ok(<<>>), memory |-> m]
    ELSE write_program_next(
            Memory_write_instruction(m, start_address + (i - 1) * 4, program[i]),
            program, start_address, i)

\* the `?` of that loop: w is what write_instruction returned
write_program_next(w, program, start_address, i) ==
    IF w.res.ok THEN write_program(w.memory, program, start_address, i + 1)
    ELSE w

\* the end of Processor::load_program: the PC is set when every write succeeded
load_program_written(p, w, start_address) ==
    IF w.res.ok THEN [res |-> w.res, p |-> [p EXCEPT !.memory = w.memory, !.pc = start_address]]
    ELSE [res |-> w.res, p |-> [p EXCEPT !.memory = w.memory]]

\* Processor::load_program: [res, p]
load_program(p, program, start_address) ==
    load_program_written(p, write_program(p.memory, program, start_address, 1),
                         start_address)

(***************************************************************************)
(* State                                                                   *)
(***************************************************************************)
VARIABLES
    registers,          \* Processor.registers
    pc,                 \* Processor.pc
    hi,                 \* Processor.hi
    lo,                 \* Processor.lo
    memory,             \* Processor.memory
    cache,              \* Processor.cache
    stats,              \* Processor.stats
    run_pc,             \* where Processor::run is: "idle", "loop" or "done"
    instruction_count,  \* the local instruction_count of Processor::run
    run_result,         \* what the last Processor::run returned
    flat,               \* a second Memory that is given every write directly
    calls,              \* the calls made so far, each with what it returned
    script,             \* the calls the caller makes first, in this order
    budget,             \* the number of calls the caller may still choose freely
    stepped,            \* <<>>, or the one record of the last Processor::step
    iterations          \* the calls of step() the current run has made

vars == <<registers, pc, hi, lo, memory, cache, stats, run_pc,
          instruction_count, run_result, flat, calls, script, budget,
          stepped, iterations>>

proc_vars == <<registers, pc, hi, lo, stats, run_pc, instruction_count, run_result,
               stepped, iterations>>

call_vars == <<flat, calls, script>>

\* the processor the variables hold
Self ==
    [registers |-> registers, pc |-> pc, hi |-> hi, lo |-> lo,
     memory |-> memory, cache |-> cache, stats |-> stats]

\* the variables hold the processor p next
Becomes(p) ==
    /\ registers' = p.registers
    /\ pc' = p.pc
    /\ hi' = p.hi
    /\ lo' = p.lo
    /\ memory' = p.memory
    /\ cache' = p.cache
    /\ stats' = p.stats

\* the variables hold the processor p
Holds(p) ==
    /\ registers = p.registers
    /\ pc = p.pc
    /\ hi = p.hi
    /\ lo = p.lo
    /\ memory = p.memory
    /\ cache = p.cache
    /\ stats = p.stats

(***************************************************************************)
(* Bounds and inputs of the cache calls                                    *)
(***************************************************************************)
\* freely chosen calls per behaviour
MaxCalls == 3

\* configured memory sizes: 257 whole lines, and 256 lines plus 8 bytes
MemorySizes == {8224, 8200}

\* bytes the Memory holds before the first cache call
SeedBytes == (1 :> 161) @@ (33 :> 162) @@ (2049 :> 163) @@ (8193 :> 164)

\* a Memory as Memory::write_byte calls leave it before the cache is used
SeededMemory(size) == [size |-> size, data |-> SeedBytes]

\* lines 0, 128 and 256 all map to set 0; 1 lies in line 0
ByteAddresses == {0, 1, 4096, 8192}

\* lines 256, 64, 128 and 192 fill the four ways of set 0
ScriptAddresses == {8192, 2048, 4096, 6144}

\* 30 straddles lines 0 and 1; 8221 + 3 is outside every configured size
WordAddresses == {0, 30, 8221}

ByteValues == {17}

\* 0x80C0FFEE
WordValues == {-2134835218}

\* one call of a script
ScriptCall(op, address, value) == [op |-> op, address |-> address, value |-> value]

\* what the caller does first: nothing, or touch four lines of set 0
Scripts ==
    { <<>>,
      <<ScriptCall("write_byte", 8192, 17), ScriptCall("write_byte", 2048, 17),
        ScriptCall("write_byte", 4096, 17), ScriptCall("write_byte", 6144, 17)>>,
      <<ScriptCall("read_byte", 8192, 0), ScriptCall("read_byte", 2048, 0),
        ScriptCall("read_byte", 4096, 0), ScriptCall("read_byte", 6144, 0)>>,
      <<ScriptCall("write_byte", 8192, 17), ScriptCall("read_byte", 2048, 0),
        ScriptCall("write_byte", 4096, 17), ScriptCall("read_byte", 6144, 0)>> }

(***************************************************************************)
(* Calls                                                                   *)
(***************************************************************************)
\* the record of one call: what was called, with what, what it returned and
\* the statistics get_stats() shows after it
Call(op, address, value, res, c) ==
    [op |-> op, address |-> address, value |-> value, res |-> res,
     stats |-> c.stats, access_counter |-> c.access_counter]

\* Processor::with_memory_size over a Memory that already holds some bytes
Init ==
    /\ \E size \in MemorySizes :
            Holds([Processor_with_memory_size(size) EXCEPT !.memory = SeededMemory(size)])
    /\ run_pc = "idle"
    /\ instruction_count = 0
    /\ run_result = Ok(<<>>)
    /\ flat = memory
    /\ calls = <<>>
    /\ script \in Scripts
    /\ budget = MaxCalls
    /\ stepped = <<>>
    /\ iterations = 0

\* the caller may make this call now: it is the next one of the script, or the
\* script is done and a free call is left
MayCall(op, address, value) ==
    /\ IF script # <<>> THEN Head(script) = ScriptCall(op, address, value)
       ELSE budget > 0 /\ address \notin ScriptAddresses \ ByteAddresses
    /\ script' = IF script # <<>> THEN Tail(script) ELSE script
    /\ budget' = IF script # <<>> THEN budget ELSE budget - 1

\* a call of the cache that returned r = [res, cache, memory]
CacheCall(op, address, value, r, direct) ==
    /\ MayCall(op, address, value)
    /\ cache' = r.cache
    /\ memory' = r.memory
    /\ flat' = direct
    /\ calls' = Append(calls, Call(op, address, value, r.res, r.cache))
    /\ UNCHANGED proc_vars

\* cache.read_byte(&mut memory, address)
ReadByte(address) ==
    CacheCall("read_byte", address, 0, Cache_read_byte(cache, memory, address), flat)

\* cache.write_byte(&mut memory, address, value)
WriteByte(address, value) ==
    CacheCall("write_byte", address, value,
              Cache_write_byte(cache, memory, address, value),
              Memory_write_byte(flat, address, value).memory)

\* cache.read_word(&mut memory, address)
ReadWord(address) ==
    CacheCall("read_word", address, 0, Cache_read_word(cache, memory, address), flat)

\* cache.write_word(&mut memory, address, value)
WriteWord(address, value) ==
    CacheCall("write_word", address, value,
              Cache_write_word(cache, memory, address, value),
              Memory_write_word(flat, address, value).memory)

\* cache.flush(&mut memory)
Flush == CacheCall("flush", 0, 0, Cache_flush(cache, memory), flat)

Next ==
    \/ \E a \in ByteAddresses \cup ScriptAddresses : ReadByte(a)
    \/ \E a \in ByteAddresses \cup ScriptAddresses, v \in ByteValues : WriteByte(a, v)
    \/ \E a \in WordAddresses : ReadWord(a)
    \/ \E a \in WordAddresses, v \in WordValues : WriteWord(a, v)
    \/ Flush

Spec == Init /\ [][Next]_vars

(***************************************************************************)
(* What the calls show                                                     *)
(***************************************************************************)
\* the last call made
Last == calls[Len(calls)]

\* the call before the last one
Previous == calls[Len(calls) - 1]

\* the statistics before call i
StatsBefore(i) == IF i = 1 THEN CacheStats_default ELSE calls[i - 1].stats

\* call i was counted as one miss and no hit
CountedMiss(i) ==
    /\ calls[i].stats.misses = StatsBefore(i).misses + 1
    /\ calls[i].stats.hits = StatsBefore(i).hits

\* call i was counted as one hit and no miss
CountedHit(i) ==
    /\ calls[i].stats.hits = StatsBefore(i).hits + 1
    /\ calls[i].stats.misses = StatsBefore(i).misses

\* the number of the 32-byte line an address lies in
LineOf(address) == Shr(address, 5)

ByteOps == {"read_byte", "write_byte"}

WordOps == {"read_word", "write_word"}

\* the call is within the Memory: every byte it names is below its size
InBounds(call) ==
    \/ call.op \in ByteOps /\ ~ByteOutOfRange(memory, call.address)
    \/ call.op \in WordOps /\ ~WordOutOfRange(memory, call.address)

\* the lines the calls 1..n issued a byte access for
Touched(n) ==
    {LineOf(calls[i].address) : i \in {j \in 1..n : calls[j].op \in ByteOps}}
    \cup {LineOf(calls[i].address + k) :
            i \in {j \in 1..n : calls[j].op \in WordOps /\ InBounds(calls[j])},
            k \in 0..3}

\* a valid line of the cache holds the line the address lies in
Resident(c, address) ==
    matching_way(SetAt(c, get_set_index(address)), get_tag(address)).some

(***************************************************************************)
(* C1  The cache is transparent: over a memory whose size is a multiple of *)
(* the line size, in a sequence of in-bounds read_byte, write_byte,        *)
(* read_word and write_word calls every read returns what the flat Memory  *)
(* that was given the same writes returns.                                 *)
(***************************************************************************)
C1_Transparent ==
    ( /\ calls # <<>>
      /\ memory.size % CACHE_LINE_SIZE = 0
      /\ \A i \in 1..Len(calls) :
            calls[i].op \in ByteOps \cup WordOps /\ InBounds(calls[i]) )
    => /\ Last.op = "read_byte" => Last.res = Memory_read_byte(flat, Last.address)
       /\ Last.op = "read_word" => Last.res = Memory_read_word(flat, Last.address)

(***************************************************************************)
(* C2  write_word(a, v) at an in-bounds a, directly followed by            *)
(* read_word(a), returns v.                                                *)
(***************************************************************************)
C2_WordReadBack ==
    ( /\ Len(calls) >= 2
      /\ Previous.op = "write_word"
      /\ Last.op = "read_word"
      /\ Last.address = Previous.address
      /\ InBounds(Last) )
    => Last.res = Ok(Previous.value)

(***************************************************************************)
(* C3  A write of v at a through the cache that succeeded, followed by a   *)
(* flush that succeeded, makes the direct Memory read at a return v.       *)
(***************************************************************************)
C3_FlushMakesVisible ==
    ( /\ Len(calls) >= 2
      /\ Previous.op \in {"write_byte", "write_word"}
      /\ Previous.res.ok
      /\ Last.op = "flush"
      /\ Last.res.ok )
    => /\ Previous.op = "write_byte"
            => Memory_read_byte(memory, Previous.address) = Ok(Previous.value)
       /\ Previous.op = "write_word"
            => Memory_read_word(memory, Previous.address) = Ok(Previous.value)

\* a word written across the boundary of lines 0 and 1 was flushed
C3_Witness ==
    /\ Len(calls) >= 2
    /\ Previous.op = "write_word" /\ Previous.address = 30 /\ Previous.res.ok
    /\ Last.op = "flush" /\ Last.res.ok
    /\ Last.stats.writebacks >= 2

\* calls i..j are byte accesses that succeeded
ByteAccesses(i, j) ==
    \A k \in i..j : calls[k].op \in ByteOps /\ calls[k].res.ok

\* calls i..i+4 touch five distinct lines A, B, C, D, E of one set
FiveLinesOfOneSet(i) ==
    /\ ByteAccesses(i, i + 4)
    /\ \A k \in i..(i + 4) :
            get_set_index(calls[k].address) = get_set_index(calls[i].address)
    /\ \A k, l \in i..(i + 4) :
            k # l => LineOf(calls[k].address) # LineOf(calls[l].address)

\* call n accesses the line that call i accessed
SameLine(n, i) == LineOf(calls[n].address) = LineOf(calls[i].address)

(***************************************************************************)
(* C4  Replacement within a set is least-recently-used: after byte         *)
(* accesses to five distinct lines A, B, C, D, E of one set, in this       *)
(* order, the next access to A is a miss and the next access to C, D or E  *)
(* is a hit; C, D and E are still hits after A was accessed again.         *)
(***************************************************************************)
C4_LRU ==
    LET n == Len(calls)
    IN  /\ (n >= 6 /\ FiveLinesOfOneSet(n - 5) /\ Last.op \in ByteOps)
            => /\ SameLine(n, n - 5) => CountedMiss(n)
               /\ (SameLine(n, n - 3) \/ SameLine(n, n - 2) \/ SameLine(n, n - 1))
                    => CountedHit(n)
        /\ ( /\ n >= 7
             /\ FiveLinesOfOneSet(n - 6)
             /\ ByteAccesses(n - 1, n - 1)
             /\ SameLine(n - 1, n - 6)
             /\ Last.op \in ByteOps )
            => ((SameLine(n, n - 4) \/ SameLine(n, n - 3) \/ SameLine(n, n - 2))
                    => CountedHit(n))

\* A, B, C, D, E were touched, A was accessed again and missed, then E hit
C4_Witness ==
    /\ Len(calls) = 7
    /\ FiveLinesOfOneSet(1)
    /\ ByteAccesses(6, 7)
    /\ SameLine(6, 1) /\ CountedMiss(6)
    /\ SameLine(7, 5) /\ CountedHit(7)

(***************************************************************************)
(* C5  A byte access to a line that no call has touched is counted as one  *)
(* miss and no hit; a byte access to a line that was touched and is still  *)
(* resident is counted as one hit and no miss.                             *)
(***************************************************************************)
C5_MissThenHit ==
    [][ (Len(calls') = Len(calls) + 1 /\ calls'[Len(calls')].op \in ByteOps)
        => LET n == Len(calls')
               line == LineOf(calls'[n].address)
               delta == [hits |-> cache'.stats.hits - cache.stats.hits,
                         misses |-> cache'.stats.misses - cache.stats.misses]
           IN  /\ line \notin Touched(n - 1)
                    => delta = [hits |-> 0, misses |-> 1]
               /\ (line \in Touched(n - 1) /\ Resident(cache, calls'[n].address))
                    => delta = [hits |-> 1, misses |-> 0] ]_vars

\* the first access to line 0 missed and the access to its next byte hit
C5_Witness ==
    /\ Len(calls) >= 2
    /\ Previous.op \in ByteOps /\ Last.op \in ByteOps
    /\ LineOf(Previous.address) \notin Touched(Len(calls) - 2)
    /\ CountedMiss(Len(calls) - 1)
    /\ SameLine(Len(calls), Len(calls) - 1)
    /\ Last.address # Previous.address
    /\ CountedHit(Len(calls))

(***************************************************************************)
(* Programs and the calls of the processor                                 *)
(***************************************************************************)
\* calls of load_program, set_register, step and run per behaviour
MaxApiCalls == 3

\* passes of the loop that a run is followed for
MaxIterations == 10

\* SimulatorConfig::default().memory_size
MEMORY_SIZE_DEFAULT == 16 * 1024 * 1024

\* SimulatorConfig::default().program_start, 0x00400000
PROGRAM_START == 4194304

\* the word that decode reads as an R-format instruction
EncodeR(rs, rt, rd, shamt, funct) ==
    rs * 2097152 + rt * 65536 + rd * 2048 + shamt * 64 + funct

\* the word that decode reads as an I-format instruction
EncodeI(opcode, rs, rt, imm) ==
    Shl(opcode, 26) + (rs * 2097152 + rt * 65536 + (imm % 65536))

\* the word that decode reads as a J-format instruction to instruction i of
\* the program at PROGRAM_START
EncodeJ(opcode, i) == Shl(opcode, 26) + (PROGRAM_START \div 4 + i)

\* 0x0000000C
SYSCALL == EncodeR(0, 0, 0, 0, 12)

\* 0xFFFFFFFF, opcode 0x3F
INVALID_WORD == -1

\* addi $2, $0, 10 ; syscall
ProgramExit == <<EncodeI(8, 0, 2, 10), SYSCALL>>

\* syscall
ProgramSyscall == <<SYSCALL>>

\* beq $0, $0, 0: a branch to itself
ProgramSpin == <<EncodeI(4, 0, 0, 0)>>

\* addi $8,$0,2 ; addi $8,$8,-1 ; bne $8,$0,-1 ; addi $9,$0,-1 ; jr $9
ProgramCountDown ==
    <<EncodeI(8, 0, 8, 2), EncodeI(8, 8, 8, -1), EncodeI(5, 8, 0, -1),
      EncodeI(8, 0, 9, -1), EncodeR(9, 0, 0, 0, 8)>>

\* 0: jal 3 ; 1: j 5 ; 2: invalid ; 3: sw $31,64($0) ; 4: jr $31 ;
\* 5: lw $9,64($0) ; 6: beq $9,$31,2 ; 7: invalid ; 8: slti $10,$9,0 ; 9: syscall
ProgramCall ==
    <<EncodeJ(3, 3), EncodeJ(2, 5), INVALID_WORD, EncodeI(43, 0, 31, 64),
      EncodeR(31, 0, 0, 0, 8), EncodeI(35, 0, 9, 64), EncodeI(4, 9, 31, 2),
      INVALID_WORD, EncodeI(10, 9, 10, 0), SYSCALL>>

\* addi $8,$0,-3 ; add $9,$8,$8 ; sub $10,$0,$8 ; and $11,$8,$10 ;
\* or $12,$8,$10 ; slt $13,$8,$10 ; sll $14,$8,4 ; srl $15,$8,28 ; invalid
ProgramAlu ==
    <<EncodeI(8, 0, 8, -3), EncodeR(8, 8, 9, 0, 32), EncodeR(0, 8, 10, 0, 34),
      EncodeR(8, 10, 11, 0, 36), EncodeR(8, 10, 12, 0, 37), EncodeR(8, 10, 13, 0, 42),
      EncodeR(0, 8, 14, 4, 0), EncodeR(0, 8, 15, 28, 2), INVALID_WORD>>

\* lw $8, -4($0): a load from 0xFFFFFFFC
ProgramFault == <<EncodeI(35, 0, 8, -4)>>

\* sw $8, -4($0): a store to 0xFFFFFFFC
ProgramStoreFault == <<EncodeI(43, 0, 8, -4)>>

\* addi $0, $0, 5 ; add $0, $29, $29 ; invalid: the destination is register 0
ProgramZero == <<EncodeI(8, 0, 0, 5), EncodeR(29, 29, 0, 0, 32), INVALID_WORD>>

\* addi $2, $0, 1 ; syscall ; addi $2, $0, 11 ; syscall ; addi $2, $0, 4 ;
\* addi $4, $0, 64 ; sll $4, $4, 16 ; syscall ; addi $4, $0, -1 ; syscall:
\* print_int, print_char, print_string of the bytes at PROGRAM_START, and
\* print_string of the string at 0xFFFFFFFF
ProgramPrint ==
    <<EncodeI(8, 0, 2, 1), SYSCALL, EncodeI(8, 0, 2, 11), SYSCALL,
      EncodeI(8, 0, 2, 4), EncodeI(8, 0, 4, 64), EncodeR(0, 4, 4, 16, 0), SYSCALL,
      EncodeI(8, 0, 4, -1), SYSCALL>>

\* addi $8,$0,-1 ; slti $9,$8,0 ; slti $10,$0,-1 ; slti $11,$8,-1 ;
\* slt $12,$8,$0 ; slt $13,$0,$8 ; slt $14,$8,$29 ; slt $15,$29,$8 ; invalid
ProgramCompare ==
    <<EncodeI(8, 0, 8, -1), EncodeI(10, 8, 9, 0), EncodeI(10, 0, 10, -1),
      EncodeI(10, 8, 11, -1), EncodeR(8, 0, 12, 0, 42), EncodeR(0, 8, 13, 0, 42),
      EncodeR(8, 29, 14, 0, 42), EncodeR(29, 8, 15, 0, 42), INVALID_WORD>>

\* beq $0,$0,1 ; sw $29,0($0) ; sw $29,2048($0) ; sw $29,4096($0) ;
\* sw $29,6144($0) ; sw $29,8192($0) ; lw $8,0($0) ; invalid: the stores and
\* the program itself all map to set 0, so dirty lines are evicted
ProgramEvict ==
    <<EncodeI(4, 0, 0, 1), EncodeI(43, 0, 29, 0), EncodeI(43, 0, 29, 2048),
      EncodeI(43, 0, 29, 4096), EncodeI(43, 0, 29, 6144), EncodeI(43, 0, 29, 8192),
      EncodeI(35, 0, 8, 0), INVALID_WORD>>

Programs ==
    {ProgramExit, ProgramSyscall, ProgramSpin, ProgramCountDown, ProgramCall,
     ProgramAlu, ProgramFault, ProgramStoreFault, ProgramZero, ProgramPrint,
     ProgramCompare, ProgramEvict}

\* the set_register calls the caller may make: <<reg, value>>
RegisterWrites == {<<2, 10>>, <<2, 4>>, <<0, 7>>, <<3, 20>>}

\* the words the caller may hand to execute_instruction: add $1, $2, $3
\* (0x00430820), add $0, $2, $3, add $8, $29, $29, syscall, j 0x0400014 and
\* jal 0x040000C
ExecuteWords ==
    {4392992, EncodeR(2, 3, 0, 0, 32), EncodeR(29, 29, 8, 0, 32), SYSCALL,
     EncodeJ(2, 5), EncodeJ(3, 3)}

\* the values the caller may hand to set_pc: 0x90000010
PcValues == {-1879048176}

\* the record of one call of step(): who called it, the PC it found, the word
\* it fetched, the values it found in $rs, $rt and $2, what it returned and
\* the PC it left; seq numbers the calls, so that two calls never leave the
\* same record
Stepped(by, p, f, s) ==
    [by |-> by, pc |-> p.pc, instruction |-> f.res,
     seq |-> IF stepped = <<>> THEN 1 ELSE stepped[1].seq + 1,
     rs_val |-> IF f.res.ok THEN get_register(p, Fields(f.res.val).rs) ELSE 0,
     rt_val |-> IF f.res.ok THEN get_register(p, Fields(f.res.val).rt) ELSE 0,
     v0 |-> get_register(p, 2),
     res |-> s.res, pc_after |-> s.p.pc]

\* MipsSimulator::new(SimulatorConfig::default()): no run is under way
InitRun ==
    /\ Holds(Processor_with_memory_size(MEMORY_SIZE_DEFAULT))
    /\ run_pc = "idle"
    /\ instruction_count = 0
    /\ run_result = Ok(<<>>)
    /\ flat = memory
    /\ calls = <<>>
    /\ script = <<>>
    /\ budget = MaxApiCalls
    /\ stepped = <<>>
    /\ iterations = 0

\* the caller makes a call of the processor that is not running
ApiCall ==
    /\ run_pc # "loop"
    /\ budget > 0
    /\ budget' = budget - 1
    /\ UNCHANGED call_vars

\* processor.load_program(program, start_address) has returned r
LoadProgramReturns(r) ==
    /\ ApiCall
    /\ Becomes(r.p)
    /\ run_pc' = "idle"
    /\ UNCHANGED <<instruction_count, run_result, stepped, iterations>>

\* processor.load_program(program, PROGRAM_START)
LoadProgram(program) == LoadProgramReturns(load_program(Self, program, PROGRAM_START))

\* processor.set_register(reg, value)
SetRegister(reg, value) ==
    /\ ApiCall
    /\ Becomes(set_register(Self, reg, value))
    /\ run_pc' = "idle"
    /\ UNCHANGED <<instruction_count, run_result, stepped, iterations>>

\* processor.set_pc(value)
SetPc(value) ==
    /\ ApiCall
    /\ Becomes([Self EXCEPT !.pc = value])
    /\ run_pc' = "idle"
    /\ UNCHANGED <<instruction_count, run_result, stepped, iterations>>

\* processor.step() has returned s
StepReturns(s) ==
    /\ ApiCall
    /\ Becomes(s.p)
    /\ stepped' = <<Stepped("step", Self, fetch_instruction(Self), s)>>
    /\ run_pc' = "idle"
    /\ UNCHANGED <<instruction_count, run_result, iterations>>

\* processor.step(), as MipsSimulator::run_step_mode calls it
StepCall == StepReturns(step(Self))

\* processor.execute_instruction(instruction) has returned x
ExecuteReturns(instruction, x) ==
    /\ ApiCall
    /\ Becomes(x.p)
    /\ stepped' = <<Stepped("execute", Self, [res |-> Ok(instruction)], x)>>
    /\ run_pc' = "idle"
    /\ UNCHANGED <<instruction_count, run_result, iterations>>

\* processor.execute_instruction(instruction), as test_add_instruction calls it
ExecuteCall(instruction) ==
    ExecuteReturns(instruction, execute_instruction(Self, instruction))

\* processor.run() is called: `let mut instruction_count = 0; loop {`
RunStart ==
    /\ ApiCall
    /\ run_pc' = "loop"
    /\ instruction_count' = 0
    /\ iterations' = 0
    /\ UNCHANGED <<registers, pc, hi, lo, memory, cache, stats, run_result, stepped>>

\* one pass of the loop has left r, and s is what step() returned if called;
\* the run is followed for `limit` passes
RunPass(r, s, limit) ==
    /\ run_pc = "loop"
    /\ iterations < limit
    /\ Becomes(r.p)
    /\ instruction_count' = r.instruction_count
    /\ run_pc' = IF r.going THEN "loop" ELSE "done"
    /\ run_result' = r.result
    /\ stepped' = IF pc = PC_HALT THEN stepped
                  ELSE <<Stepped("run", Self, fetch_instruction(Self), s)>>
    /\ iterations' = IF pc = PC_HALT THEN iterations ELSE iterations + 1
    /\ UNCHANGED <<flat, calls, script, budget>>

\* one pass of the loop of Processor::run
RunLoop == RunPass(run_loop(Self, instruction_count), step(Self), MaxIterations)

NextRun ==
    \/ \E program \in Programs : LoadProgram(program)
    \/ \E w \in RegisterWrites : SetRegister(w[1], w[2])
    \/ \E value \in PcValues : SetPc(value)
    \/ StepCall
    \/ \E instruction \in ExecuteWords : ExecuteCall(instruction)
    \/ RunStart
    \/ RunLoop

SpecRun == InitRun /\ [][NextRun]_vars

(***************************************************************************)
(* What the steps show                                                     *)
(***************************************************************************)
\* the last call of step()
LastStep == stepped[1]

\* what the last call of step() executed
LastDecoded == decode(LastStep.instruction.val)

\* the last call of step() fetched and executed an instruction without error
Executed ==
    /\ stepped # <<>>
    /\ LastStep.by \in {"step", "run"}
    /\ LastStep.instruction.ok /\ LastStep.res.ok

\* the run that has just returned made at least one call of step()
RunReturned == run_pc = "done" /\ iterations >= 1 /\ LastStep.by = "run"

\* the last instruction the run executed was a syscall with $2 = 10
RanProgramEnd ==
    /\ RunReturned
    /\ LastStep.instruction.ok
    /\ LastDecoded.type = "Syscall"
    /\ LastStep.v0 = 10

\* the condition of the branch that the last step executed held
BranchHolds ==
    \/ LastDecoded.type = "Beq" /\ LastStep.rs_val = LastStep.rt_val
    \/ LastDecoded.type = "Bne" /\ LastStep.rs_val # LastStep.rt_val

(***************************************************************************)
(* C6  When the program executes a syscall with $2 = 10, Processor::run    *)
(* returns Ok: the end of the program is not reported as an error.         *)
(***************************************************************************)
C6_ProgramEndIsOk == RanProgramEnd => run_result = Ok(<<>>)

(***************************************************************************)
(* A long run: the program that branches to itself is loaded and run       *)
(***************************************************************************)
\* passes of the loop that the long run is followed for
MaxLongIterations == 100003

\* processor.load_program(&[beq $0, $0, 0], PROGRAM_START), once
LoadSpin == memory.data = <<>> /\ LoadProgram(ProgramSpin)

\* processor.run() on the loaded program
RunLoaded == memory.data # <<>> /\ RunStart

\* one pass of the loop of Processor::run, followed beyond the limit
RunLoopLong == RunPass(run_loop(Self, instruction_count), step(Self), MaxLongIterations)

NextLong == LoadSpin \/ RunLoaded \/ RunLoopLong

SpecLong == InitRun /\ [][NextLong]_vars

(***************************************************************************)
(* C7  Processor::run stops once the instruction count exceeds the safety  *)
(* bound, whatever the program executes: a run never makes more than       *)
(* INSTRUCTION_LIMIT + 1 calls of step().                                  *)
(***************************************************************************)
C7_StopsAtTheBound == iterations <= INSTRUCTION_LIMIT + 1

(***************************************************************************)
(* C8  Processor::run stops only when the PC is the sentinel 0xFFFFFFFF,   *)
(* when a syscall with $2 = 10 was executed, when the instruction count    *)
(* has passed the safety bound, or when step() returned an error.          *)
(***************************************************************************)
C8_StopsOnlyOn ==
    run_pc = "done"
    => \/ pc = PC_HALT
       \/ RanProgramEnd
       \/ instruction_count > INSTRUCTION_LIMIT
       \/ ~run_result.ok

(***************************************************************************)
(* C9  A step() that executes Beq with $rs = $rt, or Bne with $rs # $rt,   *)
(* leaves PC = PC at fetch + 4 * imm (mod 2^32); one whose condition does  *)
(* not hold leaves PC = PC at fetch + 4.                                   *)
(***************************************************************************)
C9_BranchTarget ==
    (Executed /\ LastDecoded.type \in {"Beq", "Bne"})
    => LastStep.pc_after =
            IF BranchHolds THEN WrappingAdd(LastStep.pc, 4 * LastDecoded.imm)
            ELSE WrappingAdd(LastStep.pc, 4)

\* bne $8, $0, -1 was taken: the PC went back by one instruction
C9_Witness ==
    /\ Executed
    /\ LastDecoded.type = "Bne" /\ LastDecoded.imm = -1
    /\ BranchHolds
    /\ LastStep.pc_after = LastStep.pc - 4

\* the PC a control transfer sets
TransferTarget ==
    CASE LastDecoded.type \in {"Beq", "Bne"} ->
            WrappingAdd(LastStep.pc, 4 * LastDecoded.imm)
      [] LastDecoded.type \in {"J", "Jal"} ->
            (LastStep.pc - (LastStep.pc % 268435456)) + 4 * LastDecoded.addr
      [] OTHER -> LastStep.rs_val

(***************************************************************************)
(* C10  A step() that succeeds returns true exactly when it executed a     *)
(* taken Beq or Bne, a J, a Jal or a Jr; when it returns false the PC is   *)
(* the PC at fetch + 4 (mod 2^32), when it returns true the PC is the one  *)
(* the instruction set.                                                    *)
(***************************************************************************)
C10_StepReturns ==
    Executed
    => /\ LastStep.res.val <=> (BranchHolds \/ LastDecoded.type \in {"J", "Jal", "Jr"})
       /\ ~LastStep.res.val => LastStep.pc_after = WrappingAdd(LastStep.pc, 4)
       /\ LastStep.res.val => LastStep.pc_after = TransferTarget

\* jr $31 returned true and left the PC at the return address, not after it
C10_Witness ==
    /\ Executed
    /\ LastDecoded.type = "Jr"
    /\ LastStep.res.val
    /\ LastStep.pc_after = LastStep.rs_val
    /\ LastStep.pc_after = PROGRAM_START + 4

(***************************************************************************)
(* What one transition shows                                               *)
(***************************************************************************)
\* this transition is one call of execute_instruction, by step() or direct
Executing == stepped' # stepped /\ stepped'[1].instruction.ok

\* this transition is one call of execute_instruction from outside
ExecutingAlone == stepped' # stepped /\ stepped'[1].by = "execute"

\* this transition is one call of step(), by run() or from outside
Stepping == stepped' # stepped /\ stepped'[1].by \in {"step", "run"}

\* this transition is one call of step() that returned Ok
SteppingOk == Stepping /\ stepped'[1].res.ok

\* what the call of step() of this transition decoded
NowDecoded == decode(stepped'[1].instruction.val)

(***************************************************************************)
(* C11  Every call of step() that completes without a fault raises         *)
(* stats.instructions_executed by exactly 1, whether the instruction fell  *)
(* through or transferred control (taken branch, j, jal, jr).              *)
(***************************************************************************)
C11_EveryInstructionCounted ==
    [][SteppingOk
       => stats'.instructions_executed = stats.instructions_executed + 1]_vars

(***************************************************************************)
(* C12  Register 0 is 0 in every reachable state: after any calls of       *)
(* set_register and any executed instructions, those that name register 0  *)
(* as their destination included, get_register(0) returns 0 and entry 0 of *)
(* the register file is 0.                                                 *)
(***************************************************************************)
C12_RegisterZero == get_register(Self, 0) = 0 /\ registers[0] = 0

\* addi $0, $0, 5 was executed, and register 0 is still 0
C12_Witness ==
    /\ Executed
    /\ LastDecoded.type = "Addi" /\ LastDecoded.rt = 0 /\ LastDecoded.imm = 5
    /\ registers[0] = 0

(***************************************************************************)
(* Decoding: one word is put together from its fields and decoded          *)
(***************************************************************************)
\* the values the fields of the decoded words take
OpcodeValues == 0 .. 63
FunctValues == 0 .. 63
RsValues == {2, 31}
RtValues == {1, 3}
RdValues == {0, 1, 31}
ShamtValues == {0, 1}

\* InstructionType::decode(instruction), where instruction is the word with
\* the fields f
Decode(f) ==
    /\ calls' = <<[op |-> "decode", fields |-> f,
                   instruction |-> EncodeI(f.opcode, f.rs, f.rt,
                                           f.rd * 2048 + f.shamt * 64 + f.funct),
                   res |-> decode(EncodeI(f.opcode, f.rs, f.rt,
                                          f.rd * 2048 + f.shamt * 64 + f.funct))]>>
    /\ UNCHANGED <<proc_vars, memory, cache, flat, script, budget>>

\* one word is decoded in a behaviour
NextDecode ==
    /\ calls = <<>>
    /\ \E f \in [opcode : OpcodeValues, rs : RsValues, rt : RtValues,
                  rd : RdValues, shamt : ShamtValues, funct : FunctValues] :
            Decode(f)

SpecDecode == InitRun /\ [][NextDecode]_vars

\* the call of decode, once it was made
Decoding == calls[1]

\* the R-format instructions by funct
FunctTable ==
    (32 :> "Add") @@ (34 :> "Sub") @@ (36 :> "And") @@ (37 :> "Or")
    @@ (42 :> "Slt") @@ (0 :> "Sll") @@ (2 :> "Srl") @@ (8 :> "Jr")
    @@ (12 :> "Syscall")

\* the other instructions by opcode
OpcodeTable ==
    (8 :> "Addi") @@ (35 :> "Lw") @@ (43 :> "Sw") @@ (4 :> "Beq")
    @@ (5 :> "Bne") @@ (10 :> "Slti") @@ (2 :> "J") @@ (3 :> "Jal")

\* the variant the table gives
TableType(opcode, funct) ==
    IF opcode = 0
    THEN IF funct \in DOMAIN FunctTable THEN FunctTable[funct] ELSE "Invalid"
    ELSE IF opcode \in DOMAIN OpcodeTable THEN OpcodeTable[opcode]
         ELSE "Invalid"

\* bits 15-0 of the word with the fields f, unsigned
Low16(f) == f.rd * 2048 + f.shamt * 64 + f.funct

(***************************************************************************)
(* C13  decode is total and follows the table: of every word, rs, rt, rd,  *)
(* shamt are the 5-bit fields at bits 25-21, 20-16, 15-11, 10-6, imm is    *)
(* bits 15-0 as a signed 16-bit number, the target is bits 25-0; opcode 0  *)
(* gives the variant of its funct, another opcode the variant of the       *)
(* opcode, and every combination outside the table gives Invalid.          *)
(* 0x00430820 is Add{rd:1, rs:2, rt:3}; 0x20410064 is Addi{rt:1, rs:2,     *)
(* imm:100}.                                                               *)
(***************************************************************************)
C13_DecodeTable ==
    calls # <<>>
    => /\ Decoding.res.type = TableType(Decoding.fields.opcode, Decoding.fields.funct)
       /\ Decoding.res.rs = Decoding.fields.rs
       /\ Decoding.res.rt = Decoding.fields.rt
       /\ Decoding.res.rd = Decoding.fields.rd
       /\ Decoding.res.shamt = Decoding.fields.shamt
       /\ Decoding.res.imm = IF Low16(Decoding.fields) >= 32768
                             THEN Low16(Decoding.fields) - 65536
                             ELSE Low16(Decoding.fields)
       /\ Decoding.res.addr = Decoding.fields.rs * 2097152
                              + Decoding.fields.rt * 65536 + Low16(Decoding.fields)
       /\ Decoding.instruction = 4392992
          => /\ Decoding.res.type = "Add"
             /\ Decoding.res.rd = 1 /\ Decoding.res.rs = 2 /\ Decoding.res.rt = 3
       /\ Decoding.instruction = 541130852
          => /\ Decoding.res.type = "Addi"
             /\ Decoding.res.rt = 1 /\ Decoding.res.rs = 2
             /\ Decoding.res.imm = 100

\* 0xFFFFF83F was decoded: Invalid, and bits 15-0 are the immediate -1985
C13_Witness ==
    /\ calls # <<>>
    /\ Decoding.fields = [opcode |-> 63, rs |-> 31, rt |-> 3, rd |-> 31,
                          shamt |-> 0, funct |-> 63]
    /\ Decoding.res.type = "Invalid"
    /\ Decoding.res.imm = -1985

\* (a + b) mod 2^32 on bit patterns, added in halves of 16 bits with a carry
Sum32(a, b) ==
    AsI16((((a \div 65536) % 65536) + ((b \div 65536) % 65536)
           + (((a % 65536) + (b % 65536)) \div 65536)) % 65536) * 65536
    + (((a % 65536) + (b % 65536)) % 65536)

(***************************************************************************)
(* C14  execute_instruction of Add{rd, rs, rt} sets register rd to         *)
(* (rs + rt) mod 2^32 unless rd is 0, returns false, and changes nothing   *)
(* else: the PC, every other register, hi, lo, Memory, the cache and the   *)
(* counters are as they were.                                              *)
(***************************************************************************)
C14_AddFrame ==
    [][/\ (Executing /\ NowDecoded.type = "Add")
          => registers' =
                IF NowDecoded.rd = 0 THEN registers
                ELSE [registers EXCEPT ![NowDecoded.rd] =
                        Sum32(get_register(Self, NowDecoded.rs),
                              get_register(Self, NowDecoded.rt))]
       /\ (ExecutingAlone /\ NowDecoded.type = "Add")
          => /\ stepped'[1].res = Ok(FALSE)
             /\ pc' = pc /\ hi' = hi /\ lo' = lo
             /\ memory' = memory /\ cache' = cache /\ stats' = stats]_vars

\* test_add_instruction: with $2 = 10 and $3 = 20, execute_instruction of
\* 0x00430820 has left $1 = 30 and the PC where it was
C14_Witness ==
    /\ stepped # <<>>
    /\ LastStep.by = "execute"
    /\ LastStep.instruction.val = 4392992
    /\ LastStep.rs_val = 10 /\ LastStep.rt_val = 20
    /\ registers[1] = 30
    /\ pc = PC_INITIAL

\* this transition is one call of the cache
Calling == Len(calls') = Len(calls) + 1

\* the call of the cache made in this transition
NowCall == calls'[Len(calls')]

(***************************************************************************)
(* C15  Cache::read_word and Cache::write_word check the span of 4 bytes   *)
(* first: when address + 3 >= the Memory size they return                  *)
(* AddressOutOfRange(address) and leave the lines, the hit, miss and       *)
(* writeback counters, the access counter and the Memory as they were.     *)
(***************************************************************************)
C15_WordOutOfRange ==
    [][(/\ Calling
        /\ NowCall.op \in WordOps
        /\ NowCall.address + 3 >= memory.size)
       => /\ NowCall.res = Err(AddressOutOfRange(NowCall.address))
          /\ cache' = cache
          /\ memory' = memory]_vars

\* write_word at 8221 of a Memory of 8224 bytes was refused after the cache
\* had loaded a line; the first three bytes of the word lie in the Memory
C15_Witness ==
    /\ Len(calls) >= 2
    /\ Last.op = "write_word" /\ Last.address = 8221
    /\ memory.size = 8224
    /\ Last.res = Err(AddressOutOfRange(8221))
    /\ Last.stats.misses >= 1

\* the places <<set, way>> of the lines of the sets that hold a line before
\* or after this transition; the lines of every other set are as new on both
\* sides
Places == (DOMAIN cache.sets \cup DOMAIN cache'.sets) \X (0 .. (CACHE_WAYS - 1))

\* the places of the lines that are valid and dirty before this transition
DirtyPlaces ==
    {x \in Places : LineAt(cache, x[1], x[2]).valid /\ LineAt(cache, x[1], x[2]).dirty}

\* the Memory address of byte i of the line at place x before this transition
BlockAddress(x, i) == (LineAt(cache, x[1], x[2]).tag * 64 + x[1]) * 32 + i

(***************************************************************************)
(* C16  A flush that succeeds writes the block of every valid dirty line   *)
(* to the Memory at (tag * 64 + set index) * 32, clears its dirty bit and  *)
(* counts one writeback for it; valid, tag, data and access time of every  *)
(* line stay, so do the other counters and the rest of the Memory. After   *)
(* it no line is dirty and every line that was resident still hits.        *)
(***************************************************************************)
C16_Flush ==
    [][(Calling /\ NowCall.op = "flush" /\ NowCall.res.ok)
       => /\ \A x \in DirtyPlaces : \A i \in 0 .. (CACHE_LINE_SIZE - 1) :
                ByteAt(memory', BlockAddress(x, i)) = LineAt(cache, x[1], x[2]).data[i]
          /\ \A a \in DOMAIN memory.data \cup DOMAIN memory'.data :
                a \notin {BlockAddress(x, i) :
                            x \in DirtyPlaces, i \in 0 .. (CACHE_LINE_SIZE - 1)}
                => ByteAt(memory', a) = ByteAt(memory, a)
          /\ \A x \in Places :
                /\ LineAt(cache', x[1], x[2]) =
                        [LineAt(cache, x[1], x[2]) EXCEPT !.dirty = FALSE]
                /\ ~LineAt(cache', x[1], x[2]).dirty
          /\ cache'.stats =
                [cache.stats EXCEPT !.writebacks = @ + Cardinality(DirtyPlaces)]
          /\ cache'.access_counter = cache.access_counter
          /\ \A a \in ByteAddresses \cup ScriptAddresses :
                Resident(cache, a) => Resident(cache', a)]_vars

\* a flush found two dirty lines, wrote both back, and the line written last
\* is still resident
C16_Witness ==
    /\ Len(calls) >= 3
    /\ Last.op = "flush" /\ Last.res.ok
    /\ Last.stats.writebacks = Previous.stats.writebacks + 2
    /\ Previous.op = "write_byte"
    /\ Resident(cache, Previous.address)
    /\ ByteAt(memory, Previous.address) = Previous.value

\* the call of step() of this transition executed an instruction of type t
\* without a fault
NowExecuted(t) ==
    /\ stepped'[1].instruction.ok
    /\ stepped'[1].res.ok
    /\ NowDecoded.type = t

\* the call of step() of this transition executed a control transfer
NowTransfers ==
    \/ NowExecuted("J") \/ NowExecuted("Jal") \/ NowExecuted("Jr")
    \/ NowExecuted("Beq") /\ stepped'[1].rs_val = stepped'[1].rt_val
    \/ NowExecuted("Bne") /\ stepped'[1].rs_val # stepped'[1].rt_val

(***************************************************************************)
(* C17  A call of step() raises branches_taken by 1 when it executes a     *)
(* control transfer (taken Beq or Bne, J, Jal, Jr) and leaves it otherwise;*)
(* it raises loads_executed by 1 when it executes a Lw that succeeds and   *)
(* stores_executed by 1 when it executes a Sw that succeeds, and leaves    *)
(* them on every other instruction and on a Lw or Sw that faults.          *)
(***************************************************************************)
C17_Counters ==
    [][Stepping
       => /\ stats'.branches_taken =
                stats.branches_taken + IF NowTransfers THEN 1 ELSE 0
          /\ stats'.loads_executed =
                stats.loads_executed + IF NowExecuted("Lw") THEN 1 ELSE 0
          /\ stats'.stores_executed =
                stats.stores_executed + IF NowExecuted("Sw") THEN 1 ELSE 0]_vars

\* after jal, sw, jr and j the program has executed its lw: one load, one
\* store and three control transfers are counted
C17_Witness ==
    /\ Executed
    /\ LastDecoded.type = "Lw"
    /\ stats.loads_executed = 1
    /\ stats.stores_executed = 1
    /\ stats.branches_taken = 3

\* the call of step() of this transition was made by run() and faulted: it
\* returned an error other than the end of the program
RunFaulting ==
    /\ stepped' # stepped
    /\ stepped'[1].by = "run"
    /\ ~stepped'[1].res.ok
    /\ stepped'[1].res.err.kind # "ProgramEnd"

(***************************************************************************)
(* C18  When a step() that run() calls faults (address fault of the fetch, *)
(* of a load or of a store, Invalid instruction, unrecognized syscall),    *)
(* run() returns that same fault at once and executes no further           *)
(* instruction; an invalid-instruction fault carries the word fetched.     *)
(***************************************************************************)
C18_RunReturnsFault ==
    [][RunFaulting
       => /\ run_pc' = "done"
          /\ run_result' = Err(stepped'[1].res.err)
          /\ stepped'[1].res.err.kind \in {"MemoryError", "InvalidInstruction"}
          /\ stepped'[1].res.err.kind = "InvalidInstruction"
             => /\ stepped'[1].instruction.ok
                /\ stepped'[1].res.err.instruction = stepped'[1].instruction.val
          /\ ~stepped'[1].instruction.ok
             => stepped'[1].res.err = MemoryError(AddressOutOfRange(pc))]_vars

\* the run of ProgramAlu has returned the invalid word it fetched last
C18_Witness ==
    /\ RunReturned
    /\ LastStep.instruction = Ok(INVALID_WORD)
    /\ run_result = Err(InvalidInstruction(INVALID_WORD))
    /\ stats.instructions_executed = 8

\* this transition executes a syscall with the code v0 in $2
Syscalling(v0) ==
    /\ Executing
    /\ NowDecoded.type = "Syscall"
    /\ get_register(Self, 2) = v0

\* this transition executed an instruction that is not a control transfer:
\* execute_instruction returned false and changed no register, and step(),
\* where it made the call, advanced the PC by 4
FellThrough ==
    /\ stepped'[1].res = Ok(FALSE)
    /\ registers' = registers
    /\ pc' = IF stepped'[1].by = "execute" THEN pc ELSE WrappingAdd(pc, 4)

\* a byte of the Memory from address on is zero: the string there ends
StringEnds(address) ==
    /\ address >= 0
    /\ address < memory.size
    /\ \E a \in address .. (memory.size - 1) : a \notin DOMAIN memory.data

\* this transition executes a syscall with a code that has no arm
SyscallingOther ==
    /\ Executing
    /\ NowDecoded.type = "Syscall"
    /\ get_register(Self, 2) \notin {1, 4, 10, 11}

\* C19 as it is stated: the syscalls of codes 1, 4 and 11 fall through
\* whatever $4 holds, code 10 raises the program-end signal, every other code
\* yields InvalidInstruction with the syscall word
C19_SyscallDispatch ==
    [][/\ \A v0 \in {1, 4, 11} : Syscalling(v0) => FellThrough
       /\ Syscalling(10) => stepped'[1].res = Err(ProgramEnd)
       /\ SyscallingOther
          => stepped'[1].res = Err(InvalidInstruction(stepped'[1].instruction.val))]_vars

(***************************************************************************)
(* C19  Syscall dispatches on register 2. Codes 1 and 11, and code 4 when  *)
(* the bytes of the Memory from the address in $4 on hold a zero byte, are *)
(* not control transfers: execute returns false, step advances the PC by 4 *)
(* and no register changes. Code 4 over a string that does not end within  *)
(* the Memory returns the address fault of the first byte outside it and   *)
(* leaves PC and registers. Code 10 raises the program-end signal; every   *)
(* other code yields InvalidInstruction with the syscall word.             *)
(***************************************************************************)
C19_SyscallDispatchInMemory ==
    [][/\ \A v0 \in {1, 11} : Syscalling(v0) => FellThrough
       /\ (Syscalling(4) /\ StringEnds(get_register(Self, 4))) => FellThrough
       /\ (Syscalling(4) /\ ~StringEnds(get_register(Self, 4)))
          => /\ stepped'[1].res =
                    Err(MemoryError(AddressOutOfRange(
                        IF get_register(Self, 4) \in 0 .. (memory.size - 1)
                        THEN memory.size ELSE get_register(Self, 4))))
             /\ registers' = registers
             /\ pc' = pc
       /\ Syscalling(10) => stepped'[1].res = Err(ProgramEnd)
       /\ SyscallingOther
          => stepped'[1].res = Err(InvalidInstruction(stepped'[1].instruction.val))]_vars

\* syscall 4 has printed the string at PROGRAM_START, which is not empty, and
\* the step has gone on to the next instruction
C19_Witness ==
    /\ Executed
    /\ LastDecoded.type = "Syscall"
    /\ LastStep.v0 = 4
    /\ registers[4] = PROGRAM_START
    /\ ByteAt(memory, PROGRAM_START) # 0
    /\ LastStep.pc_after = LastStep.pc + 4

\* this transition executes a jump of type t
Jumping(t) == Executing /\ NowDecoded.type = t

\* the top 4 bits of the PC before this transition, as an address, with the
\* 26-bit target of the jump, shifted left by 2, in the 28 bits below
JumpAddress == (pc - (pc % 268435456)) + 4 * NowDecoded.addr

(***************************************************************************)
(* C20  J sets PC := (PC at fetch & 0xF0000000) | (target << 2). Jal sets  *)
(* register 31 := PC at fetch + 4 and then the PC to the same target. Both *)
(* are control transfers: execute returns true and step() adds no 4.       *)
(***************************************************************************)
C20_Jumps ==
    [][(Jumping("J") \/ Jumping("Jal"))
       => /\ stepped'[1].res = Ok(TRUE)
          /\ pc' = JumpAddress
          /\ Jumping("J") => registers' = registers
          /\ Jumping("Jal") => registers' = [registers EXCEPT ![31] = pc + 4]]_vars

\* jal 0x040000C was executed with the PC at 0x90000010: register 31 holds
\* 0x90000014 and the PC is 0x9040000C
C20_Witness ==
    /\ stepped # <<>>
    /\ LastStep.by = "execute"
    /\ LastDecoded.type = "Jal"
    /\ LastStep.pc = -1879048176
    /\ LastStep.res = Ok(TRUE)
    /\ registers[31] = -1879048172
    /\ pc = -1874853876

\* the register file after this transition is the one before with register
\* reg set to value, register 0 staying 0
RegisterSet(reg, value) ==
    registers' = IF reg = 0 THEN registers ELSE [registers EXCEPT ![reg] = value]

\* a is less than b as two's-complement integers: a word with bit 31 set
\* (held as a negative number) is less than one without, and of two words
\* with the same bit 31 the one with the smaller low 31 bits is the lesser
SignedLess(a, b) ==
    \/ a < 0 /\ b >= 0
    \/ (a < 0 <=> b < 0) /\ Low31(a) < Low31(b)

(***************************************************************************)
(* C21  Slt sets rd to 1 exactly when rs < rt, Slti sets rt to 1 exactly   *)
(* when rs < the sign-extended imm, the register values compared as        *)
(* two's-complement signed integers (0xFFFFFFFF is less than 0), and to 0  *)
(* otherwise.                                                              *)
(***************************************************************************)
C21_SetLessThan ==
    [][/\ (Executing /\ NowDecoded.type = "Slt")
          => RegisterSet(NowDecoded.rd,
                IF SignedLess(get_register(Self, NowDecoded.rs),
                              get_register(Self, NowDecoded.rt))
                THEN 1 ELSE 0)
       /\ (Executing /\ NowDecoded.type = "Slti")
          => RegisterSet(NowDecoded.rt,
                IF SignedLess(get_register(Self, NowDecoded.rs), NowDecoded.imm)
                THEN 1 ELSE 0)]_vars

\* slti $9, $8, 0 found 0xFFFFFFFF in $8 and has set $9 to 1
C21_Witness ==
    /\ Executed
    /\ LastDecoded.type = "Slti" /\ LastDecoded.imm = 0
    /\ LastStep.rs_val = -1
    /\ registers[9] = 1

(***************************************************************************)
(* The Memory alone: words are written to it and read from it directly     *)
(***************************************************************************)
\* calls of the Memory per behaviour
MaxMemoryCalls == 2

\* 2 overlaps the word at 0; 8197 + 3 is outside the Memory of 8200 bytes
MemoryWordAddresses == {0, 2, 8196, 8197}

\* 0x12345678 (test_memory_read_write_word), 0x80C0FFEE, 0xFFFFFFFF, 0
MemoryWordValues == {305419896, -2134835218, -1, 0}

\* Memory::with_size(size), no call made
InitMemory ==
    /\ \E size \in MemorySizes : Holds(Processor_with_memory_size(size))
    /\ run_pc = "idle"
    /\ instruction_count = 0
    /\ run_result = Ok(<<>>)
    /\ flat = memory
    /\ calls = <<>>
    /\ script = <<>>
    /\ budget = MaxMemoryCalls
    /\ stepped = <<>>
    /\ iterations = 0

\* memory.write_word(address, value)
MemoryWriteWord(address, value) ==
    /\ budget > 0
    /\ budget' = budget - 1
    /\ flat' = Memory_write_word(flat, address, value).memory
    /\ calls' = Append(calls, [op |-> "write_word", address |-> address,
                               value |-> value,
                               res |-> Memory_write_word(flat, address, value).res])
    /\ UNCHANGED <<proc_vars, memory, cache, script>>

\* memory.read_word(address)
MemoryReadWord(address) ==
    /\ budget > 0
    /\ budget' = budget - 1
    /\ calls' = Append(calls, [op |-> "read_word", address |-> address,
                               value |-> 0,
                               res |-> Memory_read_word(flat, address)])
    /\ UNCHANGED <<proc_vars, memory, cache, script, flat>>

NextMemory ==
    \/ \E a \in MemoryWordAddresses, v \in MemoryWordValues : MemoryWriteWord(a, v)
    \/ \E a \in MemoryWordAddresses : MemoryReadWord(a)

SpecMemory == InitMemory /\ [][NextMemory]_vars

\* bits 8i .. 8i+7 of the word v
ByteOfWord(v, i) == (v \div Pow2(8 * i)) % 256

(***************************************************************************)
(* C22  Directly against the Memory, for an address a with a + 3 < size,   *)
(* write_word(a, v) followed by read_word(a) returns v, and the word is    *)
(* stored little-endian: read_byte(a + i) returns bits 8i..8i+7 of v for   *)
(* i in 0..3.                                                              *)
(***************************************************************************)
C22_MemoryWord ==
    /\ ( /\ calls # <<>>
         /\ Last.op = "write_word"
         /\ Last.address + 3 < flat.size )
       => /\ Last.res = Ok(<<>>)
          /\ Memory_read_word(flat, Last.address) = Ok(Last.value)
          /\ \A i \in 0 .. 3 :
                Memory_read_byte(flat, Last.address + i)
                    = Ok(ByteOfWord(Last.value, i))
    /\ ( /\ Len(calls) >= 2
         /\ Previous.op = "write_word"
         /\ Previous.address + 3 < flat.size
         /\ Last.op = "read_word"
         /\ Last.address = Previous.address )
       => Last.res = Ok(Previous.value)

\* 0x12345678 was written at the last word of the Memory of 8200 bytes and
\* read back; the byte at the address is 0x78
C22_Witness ==
    /\ Len(calls) >= 2
    /\ flat.size = 8200
    /\ Previous.op = "write_word" /\ Previous.address = 8196
    /\ Previous.value = 305419896
    /\ Last.op = "read_word" /\ Last.address = 8196
    /\ Last.res = Ok(305419896)
    /\ ByteAt(flat, 8196) = 120

(***************************************************************************)
(* Loading: programs are loaded at PROGRAM_START and stepped or run, in    *)
(* the default Memory and in one that ends 8 bytes after PROGRAM_START     *)
(***************************************************************************)
\* the sizes given as --memory-size: 16 MB, and 0x00400008
LoadMemorySizes == {MEMORY_SIZE_DEFAULT, PROGRAM_START + 8}

\* MipsSimulator::new(config) with config.memory_size one of the sizes
InitLoad ==
    /\ \E size \in LoadMemorySizes : Holds(Processor_with_memory_size(size))
    /\ run_pc = "idle"
    /\ instruction_count = 0
    /\ run_result = Ok(<<>>)
    /\ flat = memory
    /\ calls = <<>>
    /\ script = <<>>
    /\ budget = MaxApiCalls
    /\ stepped = <<>>
    /\ iterations = 0

\* the number of calls of step() made so far
StepsMade == IF stepped = <<>> THEN 0 ELSE stepped[1].seq

\* processor.load_program(program, start_address) has returned r; the call is
\* recorded with the number of steps made before it and with whether the
\* cache held none of the lines of the program then
LoadRecordedReturns(program, start_address, r) ==
    /\ run_pc # "loop"
    /\ budget > 0
    /\ budget' = budget - 1
    /\ Becomes(r.p)
    /\ calls' = <<[op |-> "load_program", program |-> program,
                   start_address |-> start_address, res |-> r.res,
                   steps |-> StepsMade,
                   untouched |-> \A i \in 0 .. (4 * Len(program) - 1) :
                                    ~Resident(cache, start_address + i)]>>
    /\ run_pc' = "idle"
    /\ UNCHANGED <<flat, script, instruction_count, run_result, stepped, iterations>>

\* processor.load_program(program, PROGRAM_START), as MipsSimulator::load_program
\* calls it
LoadRecorded(program) ==
    LoadRecordedReturns(program, PROGRAM_START,
                        load_program(Self, program, PROGRAM_START))

NextLoad ==
    \/ \E program \in Programs : LoadRecorded(program)
    \/ StepCall
    \/ RunStart
    \/ RunLoop

SpecLoad == InitLoad /\ [][NextLoad]_vars

\* the last call of load_program
Loading == calls[1]

\* the address of instruction i (from 1) of the program loaded last
LoadedAt(i) == Loading.start_address + 4 * (i - 1)

(***************************************************************************)
(* C23  After a successful load_program(program, start) the words are in   *)
(* the Memory 4 bytes apart, Memory.read_word(start + 4 * i) = program[i]  *)
(* for every i, and PC = start; on a processor whose cache had not touched *)
(* those lines the i-th fetch of a straight-line program returns           *)
(* program[i].                                                             *)
(***************************************************************************)
C23_ProgramLoaded ==
    (calls # <<>> /\ Loading.res.ok)
    => /\ StepsMade = Loading.steps
          => /\ pc = Loading.start_address
             /\ \A i \in 1 .. Len(Loading.program) :
                    Memory_read_word(memory, LoadedAt(i)) = Ok(Loading.program[i])
       /\ ( /\ Loading.untouched
            /\ StepsMade - Loading.steps \in 1 .. Len(Loading.program)
            /\ LastStep.pc = LoadedAt(StepsMade - Loading.steps) )
          => LastStep.instruction = Ok(Loading.program[StepsMade - Loading.steps])

(***************************************************************************)
(* C24  Within a run, with no call of reset_stats, none of the counters    *)
(* instructions_executed, branches_taken, loads_executed, stores_executed, *)
(* cache hits, cache misses, cache writebacks and the access counter of    *)
(* the cache decreases from one step or cache access to the next.          *)
(***************************************************************************)
C24_CountersGrow ==
    [][/\ stats'.instructions_executed >= stats.instructions_executed
       /\ stats'.branches_taken >= stats.branches_taken
       /\ stats'.loads_executed >= stats.loads_executed
       /\ stats'.stores_executed >= stats.stores_executed
       /\ cache'.stats.hits >= cache.stats.hits
       /\ cache'.stats.misses >= cache.stats.misses
       /\ cache'.stats.writebacks >= cache.stats.writebacks
       /\ cache'.access_counter >= cache.access_counter]_vars

\* the run of ProgramEvict has raised every one of the counters
C24_Witness ==
    /\ Executed
    /\ stats.instructions_executed >= 1
    /\ stats.branches_taken >= 1
    /\ stats.loads_executed >= 1
    /\ stats.stores_executed >= 1
    /\ cache.stats.hits >= 1
    /\ cache.stats.misses >= 1
    /\ cache.stats.writebacks >= 1
    /\ cache.access_counter >= 1

(***************************************************************************)
(* Two caches side by side                                                 *)
(*                                                                         *)
(* The caller owns two Cache values over two Memory values and gives both  *)
(* the same calls; cache and memory are the first pair, stepped holds the  *)
(* second pair and what its last call returned.  Only the first cache is   *)
(* given reset_stats calls, so the two differ in their statistics.         *)
(***************************************************************************)
\* free calls the caller makes on the two caches after the script
MaxTwinCalls == 1

\* the second cache, its Memory and what its last call returned
Twin == stepped[1]

\* two caches after Cache::new over two equal memories
InitTwin ==
    /\ \E size \in MemorySizes :
            Holds([Processor_with_memory_size(size) EXCEPT !.memory = SeededMemory(size)])
    /\ run_pc = "idle"
    /\ instruction_count = 0
    /\ run_result = Ok(<<>>)
    /\ flat = memory
    /\ calls = <<>>
    /\ script \in Scripts
    /\ budget = MaxTwinCalls
    /\ stepped = <<[res |-> Ok(<<>>), cache |-> cache, memory |-> memory]>>
    /\ iterations = 0

\* the same call on both caches: it returned r on the first and t on the second
TwinCall(op, address, value, r, t) ==
    /\ MayCall(op, address, value)
    /\ cache' = r.cache
    /\ memory' = r.memory
    /\ stepped' = <<t>>
    /\ calls' = Append(calls, Call(op, address, value, r.res, r.cache))
    /\ UNCHANGED <<registers, pc, hi, lo, stats, run_pc, instruction_count,
                   run_result, flat, iterations>>

\* cache.reset_stats() on the first cache only, once its statistics have moved
ResetStats ==
    /\ cache.stats # CacheStats_default
    /\ cache' = Cache_reset_stats(cache)
    /\ UNCHANGED <<proc_vars, memory, call_vars, budget>>

NextTwin ==
    \/ \E a \in ByteAddresses \cup ScriptAddresses :
            TwinCall("read_byte", a, 0, Cache_read_byte(cache, memory, a),
                     Cache_read_byte(Twin.cache, Twin.memory, a))
    \/ \E a \in ByteAddresses \cup ScriptAddresses, v \in ByteValues :
            TwinCall("write_byte", a, v, Cache_write_byte(cache, memory, a, v),
                     Cache_write_byte(Twin.cache, Twin.memory, a, v))
    \/ \E a \in WordAddresses :
            TwinCall("read_word", a, 0, Cache_read_word(cache, memory, a),
                     Cache_read_word(Twin.cache, Twin.memory, a))
    \/ \E a \in WordAddresses, v \in WordValues :
            TwinCall("write_word", a, v, Cache_write_word(cache, memory, a, v),
                     Cache_write_word(Twin.cache, Twin.memory, a, v))
    \/ TwinCall("flush", 0, 0, Cache_flush(cache, memory),
                Cache_flush(Twin.cache, Twin.memory))
    \/ ResetStats

SpecTwin == InitTwin /\ [][NextTwin]_vars

(***************************************************************************)
(* C25  The statistics are reporting only: two caches over equal memories  *)
(* that are given the same calls, and whose hits, misses and writebacks    *)
(* differ, return the same values, hold the same lines in the same ways    *)
(* (valid, dirty, tag, data, timestamp: so they chose the same victims)    *)
(* and leave the same bytes in Memory after every call.  Their access      *)
(* counters never differ: the counter is one more than the newest          *)
(* timestamp of the valid lines, or 0 when no line was ever stamped.       *)
(***************************************************************************)
C25_StatisticsReportOnly ==
    /\ Twin.res = (IF calls = <<>> THEN Ok(<<>>) ELSE Last.res)
    /\ Twin.cache.sets = cache.sets
    /\ Twin.memory = memory
    /\ Twin.cache.access_counter = cache.access_counter
    /\ \A s \in DOMAIN cache.sets : \A w \in 0..(CACHE_WAYS - 1) :
            cache.sets[s][w].valid =>
                cache.sets[s][w].access_time < cache.access_counter
    /\ cache.access_counter > 0 =>
            \E s \in DOMAIN cache.sets : \E w \in 0..(CACHE_WAYS - 1) :
                /\ cache.sets[s][w].valid
                /\ cache.sets[s][w].access_time = cache.access_counter - 1

\* after the statistics of the first cache were reset, a miss on both caches
\* evicted a dirty line and wrote it back
C25_Witness ==
    /\ calls # <<>>
    /\ Last.res.ok
    /\ cache.stats.writebacks = 1
    /\ Twin.cache.stats.writebacks = 1
    /\ cache.stats.misses = 1
    /\ Twin.cache.stats.misses = 5

(***************************************************************************)
(* The decomposition of addresses                                          *)
(*                                                                         *)
(* The caller's addresses are drawn as two 16-bit halves, so that what the *)
(* functions return can be compared with sums that stay below 2^31.        *)
(***************************************************************************)
\* addresses decomposed in one behaviour
MaxAddresses == 2

\* the upper halves of the addresses: 0x0000, 0x0001, 0x0040, 0x7FFF, 0x8000, 0xFFFF
UpperHalves == {0, 1, 64, 32767, 32768, 65535}

\* the lower halves: the ends of lines, of the sets' round (2048) and of the half
LowerHalves == {0, 1, 31, 32, 2047, 2048, 2080, 65504, 65535}

\* the u32 with these halves
AddressOf(upper, lower) ==
    IF upper >= 32768 THEN (upper - 65536) * 65536 + lower ELSE upper * 65536 + lower

\* get_set_index, get_tag and get_offset of one address, and the base address
\* writeback_line computes from the first two
Decompose(upper, lower) ==
    /\ Len(calls) < MaxAddresses
    /\ calls' = Append(calls,
                    [op |-> "decompose", upper |-> upper, lower |-> lower,
                     address |-> AddressOf(upper, lower),
                     set_index |-> get_set_index(AddressOf(upper, lower)),
                     tag |-> get_tag(AddressOf(upper, lower)),
                     offset |-> get_offset(AddressOf(upper, lower)),
                     base |-> base_address(get_tag(AddressOf(upper, lower)),
                                           get_set_index(AddressOf(upper, lower)))])
    /\ UNCHANGED <<proc_vars, memory, cache, flat, script, budget>>

NextAddress == \E upper \in UpperHalves, lower \in LowerHalves : Decompose(upper, lower)

SpecAddress == InitRun /\ [][NextAddress]_vars

\* address / 32 of a decomposed address, from its halves
LineNumber(d) == d.upper * 2048 + d.lower \div 32

(***************************************************************************)
(* C26  For every 32-bit address, setIndex = (address / 32) mod 64,        *)
(* tag = (address / 32) / 64 and offset = address mod 32; tag * 64 +       *)
(* setIndex is below 2^27, so that the base (tag * 64 + setIndex) * 32 is  *)
(* below 2^32, and the base plus the offset is the address; two addresses  *)
(* have the same (setIndex, tag) exactly when they are in the same line of *)
(* 32 bytes.                                                               *)
(***************************************************************************)
C26_AddressDecomposition ==
    /\ \A i \in 1..Len(calls) :
          LET d == calls[i]
          IN  /\ d.set_index = LineNumber(d) % 64
              /\ d.tag = LineNumber(d) \div 64
              /\ d.offset = d.lower % 32
              /\ d.tag * 64 + d.set_index < 134217728
              /\ (d.tag * 64 + d.set_index) \div 2048 = d.upper
              /\ ((d.tag * 64 + d.set_index) % 2048) * 32 + d.offset = d.lower
              /\ d.base = AddressOf(d.upper, d.lower - d.offset)
              /\ WrappingAdd(d.base, d.offset) = d.address
    /\ \A i, j \in 1..Len(calls) :
          (calls[i].set_index = calls[j].set_index /\ calls[i].tag = calls[j].tag)
              <=> LineNumber(calls[i]) = LineNumber(calls[j])

\* 0xFFFFFFFF and 0xFFFFFFE0, the two ends of the last line, were decomposed
C26_Witness ==
    /\ Len(calls) = 2
    /\ calls[1].address = -1
    /\ calls[2].address = -32
    /\ calls[1].tag = 2097151
    /\ calls[1].set_index = 63
    /\ calls[1].offset = 31
    /\ calls[2].offset = 0

\* this transition is a byte access whose line no valid line of the set holds
Missing ==
    /\ Calling
    /\ NowCall.op \in ByteOps
    /\ ~Resident(cache, NowCall.address)

\* the ways of a set that are not valid
InvalidWays(set) == {w \in 0..(CACHE_WAYS - 1) : ~set[w].valid}

\* the lowest invalid way of a set; when all are valid the way with the
\* smallest timestamp, the lowest of these
Victim(set) ==
    IF InvalidWays(set) # {}
    THEN CHOOSE w \in InvalidWays(set) : \A v \in InvalidWays(set) : w <= v
    ELSE CHOOSE w \in 0..(CACHE_WAYS - 1) : \A v \in 0..(CACHE_WAYS - 1) :
            \/ set[w].access_time < set[v].access_time
            \/ set[w].access_time = set[v].access_time /\ w <= v

(***************************************************************************)
(* C27  On every miss of read_byte or write_byte the victim is the lowest  *)
(* invalid way of the set when there is one, and otherwise the valid way   *)
(* with the smallest access timestamp (the lowest such way): every other   *)
(* way of the set, and every other set, keeps its line as it was, and      *)
(* after a miss that succeeded the victim way holds the line of the        *)
(* address.  So no valid line is evicted while the set has an invalid way. *)
(***************************************************************************)
C27_Victim ==
    [][Missing =>
        LET set_index == get_set_index(NowCall.address)
            victim == Victim(SetAt(cache, set_index))
        IN  /\ \A w \in 0..(CACHE_WAYS - 1) :
                    w # victim =>
                        LineAt(cache', set_index, w) = LineAt(cache, set_index, w)
            /\ \A s \in (DOMAIN cache.sets \cup DOMAIN cache'.sets) \ {set_index} :
                    SetAt(cache', s) = SetAt(cache, s)
            /\ NowCall.res.ok =>
                    /\ LineAt(cache', set_index, victim).valid
                    /\ LineAt(cache', set_index, victim).tag = get_tag(NowCall.address)
                    /\ LineAt(cache', set_index, victim).access_time
                            = cache.access_counter]_vars

\* four lines filled set 0, the line in way 0 was accessed again, and the
\* miss on a fifth line took way 1; before, a miss took the invalid way 3
\* while ways 0 to 2 were valid
C27_Witness ==
    /\ Len(calls) = 6
    /\ \A i \in 1..6 : calls[i].op \in ByteOps /\ calls[i].res.ok
    /\ get_tag(calls[4].address) = 3
    /\ LineOf(calls[5].address) = LineOf(calls[1].address)
    /\ calls[6].address = 0
    /\ cache.sets[0][1].valid /\ cache.sets[0][1].tag = 0
    /\ cache.sets[0][1].access_time = 5
    /\ cache.sets[0][0].tag = 4 /\ cache.sets[0][0].access_time = 4
    /\ cache.sets[0][3].tag = 3 /\ cache.sets[0][3].access_time = 3

\* the line the miss of this transition selects as its victim
VictimLine == LineAt(cache, get_set_index(NowCall.address),
                     Victim(SetAt(cache, get_set_index(NowCall.address))))

\* the Memory address of byte i of the victim's block
VictimAddress(i) ==
    (VictimLine.tag * 64 + get_set_index(NowCall.address)) * 32 + i

(***************************************************************************)
(* C28  A miss of read_byte or write_byte whose victim is valid and dirty  *)
(* writes the 32 bytes of the victim to the Memory at                      *)
(* (victim tag * 64 + set index) * 32, nothing else, and counts exactly    *)
(* one writeback; a miss whose victim is invalid or clean leaves the       *)
(* Memory and the writebacks as they were.                                 *)
(***************************************************************************)
C28_WritebackOnEviction ==
    [][Missing =>
        IF VictimLine.valid /\ VictimLine.dirty
        THEN /\ \A i \in 0..(CACHE_LINE_SIZE - 1) :
                    ByteAt(memory', VictimAddress(i)) = VictimLine.data[i]
             /\ \A a \in DOMAIN memory.data \cup DOMAIN memory'.data :
                    a \notin {VictimAddress(i) : i \in 0..(CACHE_LINE_SIZE - 1)}
                        => ByteAt(memory', a) = ByteAt(memory, a)
             /\ cache'.stats.writebacks = cache.stats.writebacks + 1
        ELSE /\ memory' = memory
             /\ cache'.stats.writebacks = cache.stats.writebacks]_vars

\* the line in the victim's way after this transition
VictimLineAfter == LineAt(cache', get_set_index(NowCall.address),
                          Victim(SetAt(cache, get_set_index(NowCall.address))))

(***************************************************************************)
(* C29  On a miss of write_byte the victim way becomes valid and dirty     *)
(* with the tag of the address and the timestamp the access counter had,   *)
(* which is newer than the timestamp of every valid line; the byte at the  *)
(* offset of the address is the value written and the other 31 bytes are   *)
(* the bytes the way held before: nothing is taken from the Memory.        *)
(***************************************************************************)
C29_WriteAllocate ==
    [][(Missing /\ NowCall.op = "write_byte") =>
        /\ VictimLineAfter =
                [valid |-> TRUE, dirty |-> TRUE,
                 tag |-> get_tag(NowCall.address),
                 data |-> [VictimLine.data EXCEPT
                                ![NowCall.address % 32] = NowCall.value],
                 access_time |-> cache.access_counter]
        /\ \A x \in Places :
                LineAt(cache, x[1], x[2]).valid =>
                    LineAt(cache, x[1], x[2]).access_time < VictimLineAfter.access_time
        /\ cache'.access_counter = cache.access_counter + 1]_vars

(***************************************************************************)
(* C30  Before and after every call a line that is not valid is not dirty, *)
(* and no call (read, write, flush, whether it succeeds or fails) makes a  *)
(* valid line invalid: a way that holds a valid line holds a valid line    *)
(* ever after.                                                             *)
(***************************************************************************)
C30_ValidForever ==
    [][\A x \in Places :
        /\ ~LineAt(cache, x[1], x[2]).valid => ~LineAt(cache, x[1], x[2]).dirty
        /\ ~LineAt(cache', x[1], x[2]).valid => ~LineAt(cache', x[1], x[2]).dirty
        /\ LineAt(cache, x[1], x[2]).valid => LineAt(cache', x[1], x[2]).valid]_vars

\* a line was written, evicted by a miss and written back, and all was
\* flushed: the four ways of set 0 are valid, way 0 holds the new line, and
\* the ways of set 1 are invalid and clean
C30_Witness ==
    /\ Len(calls) >= 6
    /\ calls[1].op = "write_byte" /\ calls[1].res.ok
    /\ Last.op = "flush" /\ Last.res.ok
    /\ cache.stats.writebacks >= 4
    /\ \A w \in 0..(CACHE_WAYS - 1) :
            /\ cache.sets[0][w].valid
            /\ ~cache.sets[0][w].dirty
            /\ ~LineAt(cache, 1, w).valid
            /\ ~LineAt(cache, 1, w).dirty
    /\ cache.sets[0][0].tag # get_tag(calls[1].address)

(***************************************************************************)
(* C31  Over a Memory whose size is a multiple of 32, after in-bounds      *)
(* reads and writes through the cache and a flush that succeeded, the      *)
(* Memory holds at every address what the flat Memory that was given the   *)
(* same writes holds: the last value written there, or the original byte.  *)
(***************************************************************************)
C31_FlushedEqualsFlat ==
    ( /\ Len(calls) >= 2
      /\ memory.size % CACHE_LINE_SIZE = 0
      /\ \A i \in 1..(Len(calls) - 1) :
            calls[i].op \in ByteOps \cup WordOps /\ InBounds(calls[i])
      /\ Last.op = "flush"
      /\ Last.res.ok )
    => \A a \in DOMAIN memory.data \cup DOMAIN flat.data :
            ByteAt(memory, a) = ByteAt(flat, a)

(***************************************************************************)
(* C32  In every state of the cache no two valid lines of one set carry    *)
(* the same tag: a line of the Memory is resident in at most one way.      *)
(***************************************************************************)
C32_OneWayPerLine ==
    \A s \in DOMAIN cache.sets : \A v, w \in 0..(CACHE_WAYS - 1) :
        ( /\ v # w
          /\ cache.sets[s][v].valid
          /\ cache.sets[s][w].valid )
        => cache.sets[s][v].tag # cache.sets[s][w].tag

\* the four ways of set 0 are valid, the line touched first was evicted by
\* a fifth line and then accessed again: it is back in one way
C32_Witness ==
    /\ Len(calls) = 6
    /\ \A i \in 1..6 : calls[i].op \in ByteOps /\ calls[i].res.ok
    /\ LineOf(calls[6].address) = LineOf(calls[1].address)
    /\ CountedMiss(5)
    /\ CountedMiss(6)
    /\ \A w \in 0..(CACHE_WAYS - 1) : cache.sets[0][w].valid
    /\ Cardinality({w \in 0..(CACHE_WAYS - 1) :
                        cache.sets[0][w].tag = get_tag(calls[1].address)}) = 1

\* what this transition added to hits, to misses and to the access counter
MoreHits == cache'.stats.hits - cache.stats.hits

MoreMisses == cache'.stats.misses - cache.stats.misses

MoreAccesses == cache'.access_counter - cache.access_counter

(***************************************************************************)
(* C33  Every call of read_byte or write_byte adds 1 to exactly one of     *)
(* hits and misses, and 1 to the access counter when it succeeds (0 when   *)
(* it fails, and then it was a miss).  So hits + misses counts the byte    *)
(* accesses attempted: a word access that succeeds adds 4, and 4 to the    *)
(* access counter; one that the range check rejects adds none; one that    *)
(* fails at one of its bytes adds the bytes up to that one, the last of    *)
(* them a miss; flush adds none.                                           *)
(***************************************************************************)
C33_HitsPlusMisses ==
    [][Calling =>
        /\ MoreHits >= 0 /\ MoreMisses >= 0
        /\ NowCall.op \in ByteOps =>
                /\ MoreHits + MoreMisses = 1
                /\ MoreAccesses = (IF NowCall.res.ok THEN 1 ELSE 0)
                /\ ~NowCall.res.ok => MoreMisses = 1
        /\ NowCall.op \in WordOps =>
                IF NowCall.res.ok
                THEN MoreHits + MoreMisses = 4 /\ MoreAccesses = 4
                ELSE IF WordOutOfRange(memory, NowCall.address)
                THEN MoreHits + MoreMisses = 0 /\ MoreAccesses = 0
                ELSE /\ MoreHits + MoreMisses \in 1..4
                     /\ MoreMisses >= 1
                     /\ MoreAccesses = MoreHits + MoreMisses - 1
        /\ NowCall.op = "flush" =>
                MoreHits + MoreMisses = 0 /\ MoreAccesses = 0]_vars

\* after a byte hit on line 0, a word read across lines 0 and 1 made three
\* hits and one miss; hits + misses is 6 after two byte accesses and one
\* word access
C33_Witness ==
    /\ Len(calls) = 3
    /\ calls[1].op \in ByteOps /\ calls[1].res.ok
    /\ calls[2].op \in ByteOps /\ calls[2].res.ok
    /\ calls[2].stats = [hits |-> 1, misses |-> 1, writebacks |-> 0]
    /\ Last.op = "read_word" /\ Last.address = 30 /\ Last.res.ok
    /\ Last.stats.hits = 3
    /\ Last.stats.misses = 3
    /\ Last.access_counter = 6

\* the valid lines of the cache that are not dirty, as <<set, way>>
CleanPlaces ==
    {x \in (DOMAIN cache.sets) \X (0..(CACHE_WAYS - 1)) :
        cache.sets[x[1]][x[2]].valid /\ ~cache.sets[x[1]][x[2]].dirty}

(***************************************************************************)
(* C34  Over a Memory whose size is a multiple of 32 that is written only  *)
(* by the cache, and with every access in bounds, each valid line that is  *)
(* not dirty holds the 32 bytes the Memory holds at                        *)
(* (tag * 64 + set index) * 32 .. + 31.                                    *)
(***************************************************************************)
C34_CleanLinesMatchMemory ==
    ( /\ memory.size % CACHE_LINE_SIZE = 0
      /\ \A i \in 1..Len(calls) : calls[i].op = "flush" \/ InBounds(calls[i]) )
    => \A x \in CleanPlaces : \A i \in 0..(CACHE_LINE_SIZE - 1) :
            cache.sets[x[1]][x[2]].data[i] =
                ByteAt(memory, (cache.sets[x[1]][x[2]].tag * 64 + x[1]) * 32 + i)

\* a line that was written and flushed and a line that was loaded by a read
\* are both clean, and the loaded one holds a byte of the Memory that is not 0
C34_Witness ==
    /\ memory.size % CACHE_LINE_SIZE = 0
    /\ Len(calls) >= 3
    /\ \A i \in 1..Len(calls) : calls[i].op = "flush" \/ InBounds(calls[i])
    /\ \E i \in 1..Len(calls) : calls[i].op = "flush" /\ calls[i].stats.writebacks >= 1
    /\ Cardinality(CleanPlaces) >= 2
    /\ \E x \in CleanPlaces : cache.sets[x[1]][x[2]].data[1] = 163
    /\ \E x \in CleanPlaces : cache.sets[x[1]][x[2]].data[0] = 17

\* this transition is one call of step() that returned an error
SteppingErr == Stepping /\ ~stepped'[1].res.ok

(***************************************************************************)
(* C35  A call of step() that returns an error (address fault of the       *)
(* fetch, of lw or sw, Invalid instruction, unrecognized syscall, address  *)
(* fault of print_string, or the end of the program) leaves the 32         *)
(* registers, PC, HI, LO and the four counters of the processor as they    *)
(* were before the call.                                                   *)
(***************************************************************************)
C35_FailedStepKeepsState ==
    [][SteppingErr =>
        /\ registers' = registers
        /\ pc' = pc
        /\ hi' = hi
        /\ lo' = lo
        /\ stats' = stats]_vars

\* the run of ProgramPrint executed nine instructions, then the syscall with
\* $2 = 4 and $4 = 0xFFFFFFFF returned the address fault of print_string;
\* the PC is still at that syscall and $2, $4 hold what they held
C35_Witness ==
    /\ stepped # <<>>
    /\ LastStep.by \in {"step", "run"}
    /\ LastStep.instruction.ok
    /\ ~LastStep.res.ok
    /\ LastStep.res.err.kind = "MemoryError"
    /\ LastDecoded.type = "Syscall"
    /\ pc = LastStep.pc
    /\ registers[2] = 4
    /\ registers[4] = -1
    /\ stats.instructions_executed = 9

(***************************************************************************)
(* C36  For every Memory size, a multiple of 32 or not, read_byte of an    *)
(* address below the size and read_word of an address with address + 3     *)
(* below the size return Ok: an access whose own bytes are inside the      *)
(* Memory does not return AddressOutOfRange.                               *)
(***************************************************************************)
C36_InBoundsReadsSucceed ==
    [][(/\ Calling
        /\ \/ NowCall.op = "read_byte" /\ ~ByteOutOfRange(memory, NowCall.address)
           \/ NowCall.op = "read_word" /\ ~WordOutOfRange(memory, NowCall.address))
       => NowCall.res.ok]_vars

\* this transition is a flush that directly follows a flush that succeeded
FlushingAgain ==
    /\ Calling
    /\ NowCall.op = "flush"
    /\ calls # <<>>
    /\ Last.op = "flush"
    /\ Last.res.ok

(***************************************************************************)
(* C37  flush is idempotent: a flush directly after a flush that succeeded *)
(* returns Ok, writes nothing to the Memory, counts no writeback and       *)
(* leaves the cache (lines, counters, access counter) and the Memory as    *)
(* the first flush left them.                                              *)
(***************************************************************************)
C37_FlushIdempotent ==
    [][FlushingAgain =>
        /\ NowCall.res.ok
        /\ cache' = cache
        /\ memory' = memory
        /\ NowCall.stats.writebacks = Last.stats.writebacks]_vars

\* a first flush wrote a dirty line back and a second flush followed it
C37_Witness ==
    /\ Len(calls) >= 3
    /\ calls[Len(calls) - 2].op \in {"write_byte", "write_word"}
    /\ Previous.op = "flush" /\ Previous.res.ok
    /\ Previous.stats.writebacks > calls[Len(calls) - 2].stats.writebacks
    /\ Last.op = "flush" /\ Last.res.ok
    /\ Last.stats = Previous.stats
    /\ \E s \in DOMAIN cache.sets : \E w \in 0..(CACHE_WAYS - 1) : cache.sets[s][w].valid

=============================================================================
